---- MODULE Spec2Model ----
(***************************************************************************)
(* A model of the structured-grid ingestion and merge code of              *)
(* mhd_cae_koopman:                                                        *)
(*   - parse_duvw_binary         (data_processing/duvw.py)                 *)
(*   - parse_tecplot_timeseries  (data_processing/tecplot_data.py)         *)
(*   - load_and_concatenate_data (data_processing/concatenation.py)        *)
(*   - save/load of a dataset  (utils/pickle_io.py, utils/numpy_io.py)     *)
(* Each program has its own specification; the variables of the other      *)
(* programs stay idle.                                                     *)
(* Arrays are functions over 0-based index ranges, as in NumPy.            *)
(***************************************************************************)
EXTENDS Integers, Sequences, FiniteSets, TLC

VARIABLES
    \* ---- parse_duvw_binary ----
    file,             \* the binary input file (fixed during a call)
    pcDuvw,           \* "start", "fill", "done", "error", "idle"
    dims,             \* first header, <<nx, ny, nz>>
    num_points,       \* nx * ny * nz as the code computes it (int32)
    block_size_bytes, \* header_size_bytes + data_size_bytes
    num_timesteps,    \* total_file_size // block_size_bytes
    fpos,             \* position of the file pointer, in bytes
    i,                \* loop index of the filling step
    timeseries_data,  \* the pre-allocated (num_timesteps, num_points, 6) array
    warned,           \* the blocks a header warning was printed for
    resDuvw,          \* what the call produced: nothing yet, a dataset, an error
    \* ---- parse_tecplot_timeseries ----
    lines,            \* the lines of the text file, as far as it was read
    linesRead,        \* the number of lines the running call has read
    pcTec,            \* "scan", "done", "error", "idle"
    all_snapshots,    \* the completed snapshots, each a list of rows
    current_snapshot_data, \* the rows of the snapshot being read
    headers,          \* the labels, [] until a VARIABLES line sets them
    skipped,          \* the 1-based numbers of the data lines not stored
    resTec,           \* what the call produced
    \* ---- load_and_concatenate_data ----
    disk,             \* what the four pickle files hold, as far as it was read
    pcMerge,          \* the position in the function, "idle" when not running
    dsIndex,          \* index of the current dataset in datasets_to_process
    data,             \* the object bound to `data`: unbound, None or a dataset
    metadata,         \* name -> shape and labels, filled by pass 1
    base_coords_t0,   \* the base's coordinates at timestep 0, or None
    total_variables,  \* the merged variable count
    final_timeseries, \* the pre-allocated final array, <<>> before
    final_shape,      \* its shape, <<>> before
    current_var_index, \* the next free column of the final array
    loads,            \* the load_object calls so far, as <<pass, name>>
    held,             \* the names of the input datasets held in memory
    resMerge,         \* what the call produced
    \* ---- a decoder called again on the same file ----
    callNo,           \* 1 during the first call of a decoder, 2 during the second
    firstResult,      \* what the first call produced, once it has ended
    \* ---- get_grid_dimensions ----
    gridArray,        \* the timeseries argument: its shape and its cells
    gridIndices,      \* the coord_indices argument
    pcGrid,           \* "ready", "done", "idle"
    gridResult,       \* what the call returned
    \* ---- a dataset saved, loaded back and verified by a script ----
    obj,              \* the dictionary {timeseries, labels} that is saved
    encoding,         \* "pickle", "npz" or "npz_compressed"
    archive,          \* what the written file holds, <<>> before
    loaded,           \* the dictionary the load returned, <<>> before
    verified,         \* how the script's verification step ended
    pcStore           \* "save", "load", "verify", "done", "idle"

varsDuvw == <<file, pcDuvw, dims, num_points, block_size_bytes, num_timesteps,
              fpos, i, timeseries_data, warned, resDuvw>>

varsTec == <<lines, linesRead, pcTec, all_snapshots, current_snapshot_data, headers, skipped,
             resTec>>

varsMerge == <<disk, pcMerge, dsIndex, data, metadata, base_coords_t0, total_variables,
               final_timeseries, final_shape, current_var_index, loads, held, resMerge>>

varsCalls == <<callNo, firstResult>>

varsGrid == <<gridArray, gridIndices, pcGrid, gridResult>>

varsStore == <<obj, encoding, archive, loaded, verified, pcStore>>

----------------------------------------------------------------------------
\* Bounds of the model.

\* Largest grid extent of a header whose file is fully materialised.
MaxDim == 2
\* Largest number of timestep blocks in a file.
MaxT == 2
\* Largest number of lines of a text file.
MaxLines == 5
\* Largest number of grid cells (timesteps times points) of a dataset to merge.
MaxCells == 2
\* Largest number of variables of a delta dataset to merge.
MaxVars == 4
\* Largest number of variables of the base dataset to merge.
MaxBaseVars == 5
\* Largest number of snapshots, and of points of a snapshot, of an array
\* given to get_grid_dimensions.
MaxSnapshots == 2
MaxPoints == 2

----------------------------------------------------------------------------
\* NumPy helpers.

\* Half of a 32-bit word: 32-bit values are handled as two 16-bit limbs so
\* that wrap-around can be computed without leaving the 32-bit range.
Limb == 256 * 256
MaxInt32 == 2147483647

Min(a, b) == IF a < b THEN a ELSE b

\* The two's-complement bit pattern of a, as <<high limb, low limb>>.
ToU(a) == <<(a \div Limb) % Limb, a % Limb>>
\* The signed 32-bit value of a bit pattern.
FromU(u) == IF u[1] >= Limb \div 2 THEN (u[1] - Limb) * Limb + u[2]
            ELSE u[1] * Limb + u[2]
AddU(x, y) == LET lo == x[2] + y[2]
              IN  <<(x[1] + y[1] + (lo \div Limb)) % Limb, lo % Limb>>

RECURSIVE MulUSmall(_, _)
\* x * n modulo 2^32 for a limb n >= 0, by doubling.
MulUSmall(x, n) ==
    IF n = 0 THEN <<0, 0>>
    ELSE LET h == MulUSmall(x, n \div 2)
             d == AddU(h, h)
         IN  IF n % 2 = 1 THEN AddU(d, x) ELSE d

\* np.int32 * np.int32: the product wrapped to 32 bits (NumPy warns and wraps).
Mul32(a, b) ==
    LET x == ToU(a)
        y == ToU(b)
        hi == MulUSmall(x, y[1])
    IN  FromU(AddU(<<hi[2], 0>>, MulUSmall(x, y[2])))

\* Whether the mathematical product of two non-negative numbers fits 32 bits.
MulFits(a, b) == a = 0 \/ b <= MaxInt32 \div a

\* The 0-based index range of an axis of extent n (empty if n <= 0).
Range(n) == 0 .. (n - 1)

----------------------------------------------------------------------------
\* The binary file format (duvw.py, docstring of parse_duvw_binary).

num_variables == 6
header_size_bytes == 12
itemsize == 8
\* A list that misses the label of the last variable.
labelsDuvwFive == <<"x", "y", "z", "var1", "var2">>
labelsDuvw == <<"x", "y", "z", "var1", "var2", "var3">>

\* A header extent so large that nx * ny * nz leaves the 32-bit range.
BigDim == Limb

\* The mathematical number of points of a header, when it fits 32 bits.
PointsFit(h) == MulFits(h[1], h[2]) /\ MulFits(h[1] * h[2], h[3])
TruePoints(h) == h[1] * h[2] * h[3]
\* The mathematical block size 12 + nx*ny*nz*6*8 of a header, when it fits.
BlockFits(h) == PointsFit(h) /\ TruePoints(h) <= (MaxInt32 - header_size_bytes) \div (num_variables * itemsize)
TrueBlock(h) == header_size_bytes + TruePoints(h) * num_variables * itemsize

\* The q-th double of the data of block t, as the simulation wrote it: every
\* stored value is distinct and non-zero.
Stored(t, q) == 1000 * (t + 1) + q + 1

\* Headers of the model: small grids, and grids with one or more huge extents.
SmallHeaders == {<<a, b, c>> : a \in 1..MaxDim, b \in 1..MaxDim, c \in 1..MaxDim}
BigHeaders == {h \in {<<a, b, c>> : a \in {1, BigDim}, b \in {1, BigDim}, c \in {1, BigDim}} :
                  BigDim \in {h[1], h[2], h[3]}}

\* Bytes that may trail the last whole block (0: none).
Extras == {0, 2, 4, 8, 12, 20}

\* The files of the model.  A file with a small header holds k whole blocks
\* and possibly trailing bytes; a file with a huge header is short.  alt > 0
\* names a block whose header differs from the first one.
Files ==
    {[exists |-> e, hdr |-> h, size |-> k * TrueBlock(h) + x, alt |-> a] :
        e \in BOOLEAN, h \in SmallHeaders, k \in 0..MaxT, x \in Extras, a \in 0..(MaxT - 1)}
    \cup
    {[exists |-> TRUE, hdr |-> h, size |-> header_size_bytes * k + x, alt |-> 0] :
        h \in BigHeaders, k \in 1..MaxT, x \in {0, 4}}

\* np.fromfile(f, dtype=np.int32, count=3) at byte position p: the number of
\* items read, and the header stored at block b.
IntsRead(f, p) == Min(3, IF f.size > p THEN (f.size - p) \div 4 ELSE 0)
HeaderOfBlock(f, b) == IF f.alt > 0 /\ b = f.alt
                       THEN <<f.hdr[1] + 1, f.hdr[2], f.hdr[3]>>
                       ELSE f.hdr

\* np.fromfile(f, dtype=np.float64, count=c) at byte position p: the doubles
\* of block b from the position on, at most c of them.
DoublesRead(f, p, c) == Min(c, IF f.size > p THEN (f.size - p) \div itemsize ELSE 0)
ReadChunk(f, p, c, b) == [q \in Range(DoublesRead(f, p, c)) |-> Stored(b, q)]

\* temp_chunk.reshape((nx, ny, nz, num_variables), order='F'): the first
\* index varies fastest, the last (the variable) slowest.
ReshapeF(chunk, nx, ny, nz, nv) ==
    [ix \in Range(nx) |-> [iy \in Range(ny) |-> [iz \in Range(nz) |-> [v \in Range(nv) |->
        chunk[ix + nx * iy + nx * ny * iz + nx * ny * nz * v]]]]]

\* grid_f_order_view.transpose(2, 1, 0, 3)
Transpose2103(g, nx, ny, nz, nv) ==
    [iz \in Range(nz) |-> [iy \in Range(ny) |-> [ix \in Range(nx) |-> [v \in Range(nv) |->
        g[ix][iy][iz][v]]]]]

\* grid_c_order_view.reshape((num_points, num_variables)), in C order over
\* the axes (nz, ny, nx): the last of them varies fastest.
ReshapeC(g, nx, ny, nz, nv) ==
    [p \in Range(nx * ny * nz) |-> [v \in Range(nv) |->
        g[p \div (nx * ny)][(p \div nx) % ny][p % nx][v]]]

\* np.zeros(shape)
Zeros3(n0, n1, n2) == [t \in Range(n0) |-> [p \in Range(n1) |-> [v \in Range(n2) |-> 0]]]

----------------------------------------------------------------------------
\* parse_duvw_binary

NoResult == [kind |-> "none"]
ErrorResult(e) == [kind |-> "error", error |-> e]

IdleDuvw ==
    /\ file = [exists |-> FALSE, hdr |-> <<1, 1, 1>>, size |-> 0, alt |-> 0]
    /\ pcDuvw = "idle"
    /\ dims = <<>>
    /\ num_points = 0
    /\ block_size_bytes = 0
    /\ num_timesteps = 0
    /\ fpos = 0
    /\ i = 0
    /\ timeseries_data = <<>>
    /\ warned = {}
    /\ resDuvw = NoResult

InitDuvw ==
    /\ file \in Files
    /\ pcDuvw = "start"
    /\ dims = <<>>
    /\ num_points = 0
    /\ block_size_bytes = 0
    /\ num_timesteps = 0
    /\ fpos = 0
    /\ i = 0
    /\ timeseries_data = <<>>
    /\ warned = {}
    /\ resDuvw = NoResult

\* A handler that prints the exception and does not raise it again.
DuvwSwallow(e) ==
    /\ pcDuvw' = "done"
    /\ resDuvw' = NoResult

\* The call fails: the exception is printed and re-raised to the caller.
DuvwRaise(e) ==
    /\ pcDuvw' = "error"
    /\ resDuvw' = ErrorResult(e)

\* nx * ny * nz on np.int32 scalars.
NumPointsOf(h) == Mul32(Mul32(h[1], h[2]), h[3])
\* header_size_bytes + num_points * num_variables * itemsize
BlockSizeOf(np) == header_size_bytes + np * num_variables * itemsize
\* total_file_size_64 % block_size_bytes_64 != 0
SizeCheckFails(size, block) == size % block # 0
\* A count of blocks that leaves the last block out.
NumTimestepsWithoutLast(size, block) == size \div block - 1

\* int(total_file_size_64 // block_size_bytes_64)
NumTimestepsOf(size, block) == size \div block

\* Lines 35-77: the existence check, the first header, the size check and
\* the pre-allocation.
DuvwOpen ==
    /\ pcDuvw = "start"
    /\ IF ~file.exists THEN
           /\ DuvwRaise("not_found")
           /\ UNCHANGED <<dims, num_points, block_size_bytes, num_timesteps, fpos,
                          timeseries_data>>
       ELSE IF IntsRead(file, 0) = 0 THEN
           /\ DuvwRaise("empty")
           /\ UNCHANGED <<dims, num_points, block_size_bytes, num_timesteps, fpos,
                          timeseries_data>>
       ELSE IF IntsRead(file, 0) < 3 THEN
           \* nx, ny, nz = dims fails to unpack.
           /\ DuvwRaise("unpack")
           /\ UNCHANGED <<dims, num_points, block_size_bytes, num_timesteps, fpos,
                          timeseries_data>>
       ELSE
           LET np == NumPointsOf(file.hdr)
               bs == BlockSizeOf(np)
               nt == NumTimestepsOf(file.size, bs)
           IN  /\ dims' = file.hdr
               /\ num_points' = np
               /\ block_size_bytes' = bs
               /\ IF SizeCheckFails(file.size, bs) THEN
                      /\ DuvwRaise("corrupt_format")
                      /\ UNCHANGED <<num_timesteps, fpos, timeseries_data>>
                  ELSE
                      /\ num_timesteps' = nt
                      /\ timeseries_data' = Zeros3(nt, np, num_variables)
                      /\ fpos' = 0
                      /\ pcDuvw' = "fill"
                      /\ resDuvw' = resDuvw
    /\ UNCHANGED <<file, i, warned>>
    /\ UNCHANGED <<varsTec, varsMerge, varsCalls, varsGrid, varsStore>>

\* Lines 96-115: the Fortran-to-C reordering of one block.
ReorderChunk(chunk, h) ==
    ReshapeC(Transpose2103(ReshapeF(chunk, h[1], h[2], h[3], num_variables),
                           h[1], h[2], h[3], num_variables),
             h[1], h[2], h[3], num_variables)

\* Whether temp_chunk.reshape((nx, ny, nz, 6)) accepts a chunk of n values.
ReshapeAccepts(n, h) == PointsFit(h) /\ n = TruePoints(h) * num_variables

\* A filling step that refuses a block whose header differs from the first.
DuvwBlockRefusesMismatch ==
    /\ pcDuvw = "fill"
    /\ i < num_timesteps
    /\ LET nread == IntsRead(file, fpos)
           block_dims == IF nread = 3 THEN HeaderOfBlock(file, i) ELSE <<>>
           p1 == fpos + 4 * nread
           count == num_points * num_variables
           temp_chunk == ReadChunk(file, p1, count, i)
           n == DoublesRead(file, p1, count)
       IN  /\ warned' = warned
           /\ fpos' = p1 + itemsize * n
           /\ IF block_dims = dims /\ ReshapeAccepts(n, dims) THEN
                  /\ timeseries_data' =
                         [timeseries_data EXCEPT ![i] = ReorderChunk(temp_chunk, dims)]
                  /\ i' = i + 1
                  /\ UNCHANGED <<pcDuvw, resDuvw>>
              ELSE
                  /\ DuvwRaise(IF block_dims = dims THEN "reshape" ELSE "header_mismatch")
                  /\ UNCHANGED <<timeseries_data, i>>
    /\ UNCHANGED <<file, dims, num_points, block_size_bytes, num_timesteps>>
    /\ UNCHANGED <<varsTec, varsMerge, varsCalls, varsGrid, varsStore>>

\* Lines 82-119: one iteration of the filling loop.
DuvwBlock ==
    /\ pcDuvw = "fill"
    /\ i < num_timesteps
    /\ LET nread == IntsRead(file, fpos)
           block_dims == IF nread = 3 THEN HeaderOfBlock(file, i) ELSE <<>>
           p1 == fpos + 4 * nread
           count == num_points * num_variables
           temp_chunk == ReadChunk(file, p1, count, i)
           n == DoublesRead(file, p1, count)
       IN  /\ warned' = IF block_dims # dims THEN warned \cup {i} ELSE warned
           /\ fpos' = p1 + itemsize * n
           /\ IF ReshapeAccepts(n, dims) THEN
                  /\ timeseries_data' =
                         [timeseries_data EXCEPT ![i] = ReorderChunk(temp_chunk, dims)]
                  /\ i' = i + 1
                  /\ UNCHANGED <<pcDuvw, resDuvw>>
              ELSE
                  /\ DuvwRaise("reshape")
                  /\ UNCHANGED <<timeseries_data, i>>
    /\ UNCHANGED <<file, dims, num_points, block_size_bytes, num_timesteps>>
    /\ UNCHANGED <<varsTec, varsMerge, varsCalls, varsGrid, varsStore>>

\* Lines 121-126: the labels and the return.
DuvwReturn ==
    /\ pcDuvw = "fill"
    /\ i >= num_timesteps
    /\ pcDuvw' = "done"
    /\ resDuvw' = [kind |-> "ok",
                   timeseries |-> timeseries_data,
                   shape |-> <<num_timesteps, num_points, num_variables>>,
                   labels |-> labelsDuvw]
    /\ UNCHANGED <<file, dims, num_points, block_size_bytes, num_timesteps, fpos, i,
                   timeseries_data, warned>>
    /\ UNCHANGED <<varsTec, varsMerge, varsCalls, varsGrid, varsStore>>

NextDuvw == DuvwOpen \/ DuvwBlock \/ DuvwReturn

----------------------------------------------------------------------------
\* The Tecplot ASCII format (tecplot_data.py).

\* float(v) of a whitespace-separated token: the tokens that parse, with
\* their values; any other token raises ValueError.
FloatOf == [tok \in {"0", "1"} |-> IF tok = "0" THEN 0 ELSE 1]
IsNumeric(tok) == tok \in DOMAIN FloatOf

\* str.lower() of the leading words of the keyword lines of the model.
Lower == [w \in {"TITLE", "title", "VARIABLES", "variables", "ZONE", "zone"} |->
             IF w \in {"TITLE", "title"} THEN "title"
             ELSE IF w \in {"VARIABLES", "variables"} THEN "variables"
             ELSE "zone"]

\* A dispatch that knows the keywords in upper case only.
LineKindCaseSensitive(word, tokens) ==
    IF word = "" /\ tokens = <<>> THEN "blank"
    ELSE IF word \in {"TITLE", "VARIABLES", "ZONE"} THEN Lower[word]
    ELSE "data"

\* Lines 62-83: how the loop takes a stripped line that starts with `word`
\* (the empty string if it starts with no letters): an empty line is blank,
\* a line that starts with a keyword in any letter case is that keyword's
\* line, any other line is a data row.
LineKind(word, tokens) ==
    IF word = "" /\ tokens = <<>> THEN "blank"
    ELSE IF word \in DOMAIN Lower THEN Lower[word]
    ELSE "data"

\* The lines of the model, after line.strip(): the leading word as written,
\* and the double-quoted tokens of a VARIABLES line or the
\* whitespace-separated tokens of a data line.
Line(word, tokens) == [kind |-> LineKind(word, tokens), word |-> word, tokens |-> tokens]
TitleLine == Line("TITLE", <<>>)
TitleLines == {TitleLine, Line("title", <<>>)}
ZoneLine == Line("ZONE", <<>>)
ZoneLines == {ZoneLine, Line("zone", <<>>)}
BlankLine == Line("", <<>>)
VariablesLines == {Line("VARIABLES", <<"x", "y", "z">>), Line("VARIABLES", <<"a", "b">>),
                   Line("variables", <<>>)}
DataLines == {Line("", r) :
                 r \in {<<"0", "0", "0">>, <<"1", "0", "0">>, <<"0", "0">>,
                        <<"abc", "0", "0">>}}

\* The lines a file of the model is made of.
Lines == {BlankLine} \cup TitleLines \cup VariablesLines \cup ZoneLines \cup DataLines

\* [dtype(v) for v in line.split()]: the values, unless a token raises
\* ValueError.
ParseRow(tokens) ==
    IF \A k \in 1..Len(tokens) : IsNumeric(tokens[k])
    THEN [raised |-> FALSE, values |-> [k \in 1..Len(tokens) |-> FloatOf[tokens[k]]]]
    ELSE [raised |-> TRUE, values |-> <<>>]

\* headers and len(values) == len(headers)
\* A row check that does not compare the number of values with the labels.
RowAcceptedAnyLength(values, hs) == hs # <<>>

RowAccepted(values, hs) == hs # <<>> /\ Len(values) = Len(hs)

\* Whether all snapshots have the number of rows of the first one.
Homogeneous(snaps) == \A k \in 1..Len(snaps) : Len(snaps[k]) = Len(snaps[1])

\* np.array(all_snapshots, dtype=dtype) of equally long snapshots: the
\* 0-based (snapshot, row, column) array.
NpArray3(snaps) ==
    [s \in Range(Len(snaps)) |-> [r \in Range(Len(snaps[1])) |->
        [c \in Range(Len(snaps[1][1])) |-> snaps[s + 1][r + 1][c + 1]]]]

\* get_grid_dimensions (tecplot_data.py, lines 176-230) of a (time, points,
\* variables) array a of the given shape: the number of distinct values of
\* each coordinate column in the first snapshot, or None.
\* A count over the points of every snapshot.
DistinctInAllSnapshots(a, npoints, c) ==
    Cardinality({a[t][r][c] : t \in DOMAIN a, r \in Range(npoints)})

DistinctInColumn(a, npoints, c) == Cardinality({a[0][r][c] : r \in Range(npoints)})
\* An index check without the lower bound: a negative index counts from the
\* last column.
GridDimensionsUpperBoundOnly(a, shape, coord_indices) ==
    IF Len(shape) # 3 \/ shape[1] * shape[2] * shape[3] = 0 THEN
        [none |-> TRUE, grid |-> <<>>]
    ELSE IF Len(coord_indices) # 3 THEN
        [none |-> TRUE, grid |-> <<>>]
    ELSE IF ~(\A k \in 1..3 : coord_indices[k] < shape[3]) THEN
        [none |-> TRUE, grid |-> <<>>]
    ELSE
        [none |-> FALSE,
         grid |-> [k \in 1..3 |->
                     DistinctInColumn(a, shape[2],
                                      IF coord_indices[k] < 0
                                      THEN coord_indices[k] + shape[3]
                                      ELSE coord_indices[k])]]

get_grid_dimensions(a, shape, coord_indices) ==
    IF Len(shape) # 3 \/ shape[1] * shape[2] * shape[3] = 0 THEN
        [none |-> TRUE, grid |-> <<>>]
    ELSE IF Len(coord_indices) # 3 THEN
        [none |-> TRUE, grid |-> <<>>]
    ELSE IF ~(\A k \in 1..3 : 0 <= coord_indices[k] /\ coord_indices[k] < shape[3]) THEN
        [none |-> TRUE, grid |-> <<>>]
    ELSE
        [none |-> FALSE,
         grid |-> <<DistinctInColumn(a, shape[2], coord_indices[1]),
                    DistinctInColumn(a, shape[2], coord_indices[2]),
                    DistinctInColumn(a, shape[2], coord_indices[3])>>]

IdleTec ==
    /\ lines = <<>>
    /\ linesRead = 0
    /\ pcTec = "idle"
    /\ all_snapshots = <<>>
    /\ current_snapshot_data = <<>>
    /\ headers = <<>>
    /\ skipped = {}
    /\ resTec = NoResult

InitTec ==
    /\ lines = <<>>
    /\ linesRead = 0
    /\ pcTec = "scan"
    /\ all_snapshots = <<>>
    /\ current_snapshot_data = <<>>
    /\ headers = <<>>
    /\ skipped = {}
    /\ resTec = NoResult

\* The loop reads the next line of the file: in the first call any line, in
\* a second call the line the file holds there.
TecRead(ln) ==
    /\ pcTec = "scan"
    /\ IF callNo = 1
       THEN /\ Len(lines) < MaxLines
            /\ lines' = Append(lines, ln)
       ELSE /\ linesRead < Len(lines)
            /\ lines[linesRead + 1] = ln
            /\ lines' = lines
    /\ linesRead' = linesRead + 1
    /\ UNCHANGED <<varsDuvw, varsMerge, varsCalls, varsGrid, varsStore>>

\* Line 62: an empty line is skipped.
TecBlank ==
    /\ \E ln \in Lines : LineKind(ln.word, ln.tokens) = "blank" /\ TecRead(ln)
    /\ UNCHANGED <<pcTec, all_snapshots, current_snapshot_data, headers, skipped, resTec>>

\* A TITLE line that does not start a new snapshot.
TecTitleSameSnapshot ==
    /\ \E ln \in Lines : LineKind(ln.word, ln.tokens) = "title" /\ TecRead(ln)
    /\ UNCHANGED <<pcTec, all_snapshots, current_snapshot_data, headers, skipped, resTec>>

\* A TITLE line that stores the previous snapshot and keeps its rows in the
\* buffer.
TecTitleKeepsBuffer ==
    /\ \E ln \in Lines : LineKind(ln.word, ln.tokens) = "title" /\ TecRead(ln)
    /\ all_snapshots' = IF current_snapshot_data # <<>>
                        THEN Append(all_snapshots, current_snapshot_data)
                        ELSE all_snapshots
    /\ UNCHANGED <<pcTec, current_snapshot_data, headers, skipped, resTec>>

\* Lines 67-70: a TITLE line stores the previous snapshot and resets the buffer.
TecTitle ==
    /\ \E ln \in Lines : LineKind(ln.word, ln.tokens) = "title" /\ TecRead(ln)
    /\ all_snapshots' = IF current_snapshot_data # <<>>
                        THEN Append(all_snapshots, current_snapshot_data)
                        ELSE all_snapshots
    /\ current_snapshot_data' = <<>>
    /\ UNCHANGED <<pcTec, headers, skipped, resTec>>

\* Lines 73-76: a VARIABLES line sets the labels if none are set.
TecVariables ==
    \E ln \in Lines :
        /\ LineKind(ln.word, ln.tokens) = "variables"
        /\ TecRead(ln)
        /\ headers' = IF headers = <<>> THEN ln.tokens ELSE headers
        /\ UNCHANGED <<pcTec, all_snapshots, current_snapshot_data, skipped, resTec>>

\* Lines 79-80: a ZONE line is not used.
TecZone ==
    /\ \E ln \in Lines : LineKind(ln.word, ln.tokens) = "zone" /\ TecRead(ln)
    /\ UNCHANGED <<pcTec, all_snapshots, current_snapshot_data, headers, skipped, resTec>>

\* Lines 83-92: any other line is a row of numbers; a row that does not
\* parse or does not match the labels is dropped (with a warning if labels
\* are set or the row does not parse) and the scan goes on.
TecData ==
    \E ln \in Lines :
        /\ LineKind(ln.word, ln.tokens) = "data"
        /\ TecRead(ln)
        /\ LET parsed == ParseRow(ln.tokens)
               stored == ~parsed.raised /\ RowAccepted(parsed.values, headers)
           IN  /\ current_snapshot_data' =
                      IF stored THEN Append(current_snapshot_data, parsed.values)
                      ELSE current_snapshot_data
               /\ skipped' = IF stored THEN skipped ELSE skipped \cup {linesRead + 1}
        /\ UNCHANGED <<pcTec, all_snapshots, headers, resTec>>

\* A stacking that refuses a file without snapshots.
TecStackRefusesEmpty(snaps, hs) ==
    IF snaps = <<>> THEN ErrorResult("empty")
    ELSE IF ~Homogeneous(snaps) THEN ErrorResult("inhomogeneous")
    ELSE [kind |-> "ok", timeseries |-> NpArray3(snaps),
          shape |-> <<Len(snaps), Len(snaps[1]), Len(snaps[1][1])>>,
          labels |-> hs]

\* A stacking that refuses a first snapshot that is not a complete grid.
TecStackChecksGrid(snaps, hs) ==
    IF snaps = <<>> THEN
        [kind |-> "ok", timeseries |-> <<>>, shape |-> <<0, 0, 0>>, labels |-> <<>>]
    ELSE
        LET first == <<snaps[1]>>
            g == get_grid_dimensions(NpArray3(first),
                                     <<1, Len(first[1]), Len(first[1][1])>>, <<0, 1, 2>>)
        IN  IF ~g.none /\ g.grid[1] * g.grid[2] * g.grid[3] # Len(first[1])
            THEN ErrorResult("incomplete_grid")
            ELSE IF ~Homogeneous(snaps) THEN ErrorResult("inhomogeneous")
            ELSE [kind |-> "ok", timeseries |-> NpArray3(snaps),
                  shape |-> <<Len(snaps), Len(snaps[1]), Len(snaps[1][1])>>,
                  labels |-> hs]

\* Lines 94-115: at the end of the file the last snapshot is stored and the
\* snapshots are stacked into one array.
TecStack(snaps, hs) ==
    IF snaps = <<>> THEN
        [kind |-> "ok", timeseries |-> <<>>, shape |-> <<0, 0, 0>>, labels |-> <<>>]
    ELSE IF ~Homogeneous(snaps) THEN
        \* np.array refuses snapshots of different lengths.
        ErrorResult("inhomogeneous")
    ELSE
        [kind |-> "ok", timeseries |-> NpArray3(snaps),
         shape |-> <<Len(snaps), Len(snaps[1]), Len(snaps[1][1])>>,
         labels |-> hs]

\* An end of file that does not store the snapshot being read.
TecEofWithoutFlush ==
    /\ pcTec = "scan"
    /\ linesRead = Len(lines)
    /\ LET snaps == all_snapshots
           res == TecStack(snaps, headers)
       IN  /\ all_snapshots' = snaps
           /\ resTec' = res
           /\ pcTec' = IF res.kind = "ok" THEN "done" ELSE "error"
    /\ UNCHANGED <<lines, linesRead, current_snapshot_data, headers, skipped>>
    /\ UNCHANGED <<varsDuvw, varsMerge, varsCalls, varsGrid, varsStore>>

\* Lines 94-96: at the end of the file the snapshot being read is stored.
TecEof ==
    /\ pcTec = "scan"
    /\ linesRead = Len(lines)
    /\ LET snaps == IF current_snapshot_data # <<>>
                    THEN Append(all_snapshots, current_snapshot_data)
                    ELSE all_snapshots
           res == TecStack(snaps, headers)
       IN  /\ all_snapshots' = snaps
           /\ resTec' = res
           /\ pcTec' = IF res.kind = "ok" THEN "done" ELSE "error"
    /\ UNCHANGED <<lines, linesRead, current_snapshot_data, headers, skipped>>
    /\ UNCHANGED <<varsDuvw, varsMerge, varsCalls, varsGrid, varsStore>>

NextTec == TecBlank \/ TecTitle \/ TecVariables \/ TecZone \/ TecData \/ TecEof

----------------------------------------------------------------------------
\* The pickled datasets (concatenation.py, pickle_io.py).

base_name == "vxyz_jxyz_p_f"
\* datasets_to_process, in its iteration order.
Names == <<base_name, "du", "dv", "dw">>
NameIndex(name) == CHOOSE n \in 1..Len(Names) : Names[n] = name

\* The shapes of the model: 5-D shapes (timesteps, nx, ny, nz, variables) of
\* at most MaxCells cells, and the 3-D shapes (timesteps, points, variables)
\* of a one-point dataset as the decoders return it.
Grids == {g \in {<<t, x, y, z>> : t \in 1..MaxCells, x \in 1..MaxCells,
                                   y \in 1..MaxCells, z \in 1..MaxCells} :
             g[1] * g[2] * g[3] * g[4] <= MaxCells}
Shapes3 == {<<1, 1, n>> : n \in {1, num_variables}}
Shapes(name) ==
    {g \o <<n>> : g \in Grids,
                  n \in 1..(IF name = base_name THEN MaxBaseVars ELSE MaxVars)}
    \cup Shapes3

\* How far the coordinate values of a delta are from the base's, in units of
\* 1e-8: equal, within the tolerance of np.allclose, outside it.
Offsets == {0, 1, 2}

\* Cell (t, x, y, z, v) of the 5-D array of a file.  Values are in units of
\* 1e-8.  Columns 0..2 hold the coordinates of the grid point, shifted by
\* the file's offset; every other cell holds a value found nowhere else.
Cell(name, off, t, x, y, z, v) ==
    IF v < 3 THEN 1000 * <<x, y, z>>[v + 1] + off
    ELSE 100000 * NameIndex(name) + 10000 * t + 1000 * x + 100 * y + 10 * z + v

\* The numbers of labels a file of a shape may carry: one per variable, or,
\* for a file of one grid cell, one label fewer.
LabelCounts(sh) ==
    {sh[Len(sh)]} \cup (IF Len(sh) = 5 /\ SubSeq(sh, 1, 4) = <<1, 1, 1, 1>>
                         THEN {sh[5] - 1} ELSE {})

\* The labels of a file that carries n of them.
LabelsOf(name, n) == [v \in 1..n |-> <<name, v - 1>>]

\* The values `data` can be bound to.
Unbound == [state |-> "unbound", name |-> "", shape |-> <<>>, off |-> 0, nlabels |-> 0]
NoneObject == [state |-> "none", name |-> "", shape |-> <<>>, off |-> 0, nlabels |-> 0]
Dataset(name, shape, off, nlabels) ==
    [state |-> "loaded", name |-> name, shape |-> shape, off |-> off, nlabels |-> nlabels]

\* data['timeseries'][t, x, y, z, v]
TimeseriesOf(d, t, x, y, z, v) == Cell(d.name, d.off, t, x, y, z, v)

Abs(a) == IF a < 0 THEN 0 - a ELSE a
Max(a, b) == IF a < b THEN b ELSE a

\* A comparison with an absolute tolerance of 2e-8 and no relative one.
IsCloseWithin2(a, b) == Abs(a - b) <= 2

\* np.isclose(a, b) with the default rtol = 1e-5 and atol = 1e-8, on values in
\* units of 1e-8: |a - b| <= atol + rtol * |b|.
IsClose(a, b) == 100000 * Abs(a - b) <= 100000 + Abs(b)

\* The indices slice(a, b) selects on an axis of extent n.
SliceBound(a, n) == IF a < 0 THEN Max(a + n, 0) ELSE Min(a, n)
SliceRange(a, b, n) == SliceBound(a, n) .. (SliceBound(b, n) - 1)

\* Whether an axis of extent s can be assigned to, or compared with, an axis
\* of extent w (NumPy broadcasting).
Broadcasts(s, w) == s = w \/ s = 1
BroadcastTogether(s, w) == s = w \/ s = 1 \/ w = 1

\* np.zeros(final_shape)
Zeros5(sh) ==
    [t \in Range(sh[1]) |-> [x \in Range(sh[2]) |-> [y \in Range(sh[3]) |->
        [z \in Range(sh[4]) |-> [v \in Range(sh[5]) |-> 0]]]]]

----------------------------------------------------------------------------
\* load_and_concatenate_data

UnreadFile == [shape |-> <<>>, off |-> 0 - 1, nlabels |-> 0]

IdleMerge ==
    /\ disk = [n \in 1..Len(Names) |-> UnreadFile]
    /\ pcMerge = "idle"
    /\ dsIndex = 1
    /\ data = Unbound
    /\ metadata = <<>>
    /\ base_coords_t0 = <<>>
    /\ total_variables = 0
    /\ final_timeseries = <<>>
    /\ final_shape = <<>>
    /\ current_var_index = 0
    /\ loads = <<>>
    /\ held = {}
    /\ resMerge = NoResult

InitMerge ==
    /\ disk = [n \in 1..Len(Names) |-> UnreadFile]
    /\ pcMerge = "scan_load"
    /\ dsIndex = 1
    /\ data = Unbound
    /\ metadata = <<>>
    /\ base_coords_t0 = <<>>
    /\ total_variables = 0
    /\ final_timeseries = <<>>
    /\ final_shape = <<>>
    /\ current_var_index = 0
    /\ loads = <<>>
    /\ held = {}
    /\ resMerge = NoResult

\* A message that reports the shape of the dataset and the base's shape.
MessageShapesWithBase(e, name) ==
    IF e = "dimension_mismatch"
    THEN <<metadata[NameIndex(name)].shape, metadata[NameIndex(base_name)].shape>>
    ELSE IF e = "not_5d" THEN <<metadata[NameIndex(base_name)].shape>>
    ELSE <<>>

\* The shapes the message of an error prints: lines 76 and 89 print the
\* shape of the dataset they name, the other messages print no shape.
MessageShapes(e, name) ==
    IF e \in {"dimension_mismatch", "not_5d"} THEN <<metadata[NameIndex(name)].shape>>
    ELSE <<>>

\* The call fails with an exception.
MergeRaise(e, name) ==
    /\ pcMerge' = "error"
    /\ resMerge' = [kind |-> "error", error |-> e, name |-> name,
                    shapes |-> MessageShapes(e, name)]

\* Line 54: data = load_object(path) in pass 1.  The file is missing or
\* unreadable (None), or holds a dataset of some shape; the base's values
\* are read here, a delta's values are first read in pass 2.
MergeLoadScan ==
    /\ pcMerge = "scan_load"
    /\ loads' = Append(loads, <<1, Names[dsIndex]>>)
    /\ \/ /\ data' = NoneObject
          /\ UNCHANGED <<disk, held>>
       \/ \E sh \in Shapes(Names[dsIndex]) : \E nl \in LabelCounts(sh) :
            LET off == IF Names[dsIndex] = base_name THEN 0 ELSE 0 - 1
            IN  /\ disk' = [disk EXCEPT ![dsIndex] = [shape |-> sh, off |-> off, nlabels |-> nl]]
                /\ data' = Dataset(Names[dsIndex], sh, off, nl)
                /\ held' = held \cup {Names[dsIndex]}
    /\ pcMerge' = "scan"
    /\ UNCHANGED <<dsIndex, metadata, base_coords_t0, total_variables, final_timeseries,
                   final_shape, current_var_index, resMerge>>
    /\ UNCHANGED <<varsDuvw, varsTec, varsCalls, varsGrid, varsStore>>

\* data['timeseries'][0, ..., :3].copy() of a 5-D dataset.
CoordsT0(d) ==
    [x \in Range(d.shape[2]) |-> [y \in Range(d.shape[3]) |-> [z \in Range(d.shape[4]) |->
        [v \in Range(Min(3, d.shape[5])) |-> TimeseriesOf(d, 0, x, y, z, v)]]]]

\* A pass-1 iteration that does not release the dataset.
MergeScanKeepsData ==
    /\ pcMerge = "scan"
    /\ IF data.state = "none" THEN
           /\ MergeRaise("could_not_load", Names[dsIndex])
           /\ UNCHANGED <<dsIndex, data, held, metadata, base_coords_t0>>
       ELSE
           /\ metadata' = Append(metadata, [shape |-> data.shape,
                                            labels |-> LabelsOf(data.name, data.nlabels)])
           /\ base_coords_t0' =
                  IF Names[dsIndex] = base_name
                  THEN (IF Len(data.shape) = 5 THEN CoordsT0(data) ELSE <<>>)
                  ELSE base_coords_t0
           /\ UNCHANGED <<data, held>>
           /\ IF dsIndex < Len(Names)
              THEN dsIndex' = dsIndex + 1 /\ pcMerge' = "scan_load"
              ELSE dsIndex' = 1 /\ pcMerge' = "validate"
           /\ UNCHANGED resMerge
    /\ UNCHANGED <<disk, total_variables, final_timeseries, final_shape,
                   current_var_index, loads>>
    /\ UNCHANGED <<varsDuvw, varsTec, varsCalls, varsGrid, varsStore>>

\* Lines 55-68: the rest of a pass-1 iteration: the metadata is recorded,
\* the base's coordinates are kept, and the dataset is released.
MergeScan ==
    /\ pcMerge = "scan"
    /\ IF data.state = "none" THEN
           /\ MergeRaise("could_not_load", Names[dsIndex])
           /\ UNCHANGED <<dsIndex, data, held, metadata, base_coords_t0>>
       ELSE
           /\ metadata' = Append(metadata, [shape |-> data.shape,
                                            labels |-> LabelsOf(data.name, data.nlabels)])
           /\ base_coords_t0' =
                  IF Names[dsIndex] = base_name
                  THEN (IF Len(data.shape) = 5 THEN CoordsT0(data) ELSE <<>>)
                  ELSE base_coords_t0
           \* del data; gc.collect()
           /\ data' = Unbound
           /\ held' = held \ {data.name}
           /\ IF dsIndex < Len(Names)
              THEN dsIndex' = dsIndex + 1 /\ pcMerge' = "scan_load"
              ELSE dsIndex' = 1 /\ pcMerge' = "validate"
           /\ UNCHANGED resMerge
    /\ UNCHANGED <<disk, total_variables, final_timeseries, final_shape,
                   current_var_index, loads>>
    /\ UNCHANGED <<varsDuvw, varsTec, varsCalls, varsGrid, varsStore>>

RECURSIVE DimCheckWithoutNz(_, _, _)
\* A comparison that reads the last spatial extent and does not compare it.
DimCheckWithoutNz(shape, base_shape, n) ==
    IF n > 4 THEN "ok"
    ELSE IF n > Len(shape) THEN "index_error"
    ELSE IF n < 4 /\ shape[n] # base_shape[n] THEN "dimension_mismatch"
    ELSE DimCheckWithoutNz(shape, base_shape, n + 1)

RECURSIVE DimCheck(_, _, _)
\* Lines 86-87: meta['shape'][0] != base_timesteps or ... or meta['shape'][3]
\* != base_nz, evaluated from axis n on, left to right.
DimCheck(shape, base_shape, n) ==
    IF n > 4 THEN "ok"
    ELSE IF n > Len(shape) THEN "index_error"
    ELSE IF shape[n] # base_shape[n] THEN "dimension_mismatch"
    ELSE DimCheck(shape, base_shape, n + 1)

\* A count that keeps the coordinate columns of a delta.
VarsAddedWithCoordinates(name, shape) == shape[5]

\* meta['shape'][4] - 3 of a delta, meta['shape'][4] of the base.
VarsAdded(name, shape) == IF name = base_name THEN shape[5] ELSE shape[5] - 3

RECURSIVE ValidateFrom(_, _, _)
\* Lines 81-90: the validation loop from dataset n on, with the running
\* total: the first failure, or the total of all datasets.
ValidateFrom(meta, n, total) ==
    IF n > Len(Names) THEN [error |-> "", name |-> "", total |-> total]
    ELSE IF Names[n] = base_name THEN
        ValidateFrom(meta, n + 1, total + VarsAdded(Names[n], meta[n].shape))
    ELSE
        LET c == DimCheck(meta[n].shape, meta[NameIndex(base_name)].shape, 1)
        IN  IF c # "ok" THEN [error |-> c, name |-> Names[n], total |-> total]
            ELSE ValidateFrom(meta, n + 1, total + VarsAdded(Names[n], meta[n].shape))

\* Lines 70-90: the base must be 5-D, and every delta must have its grid.
MergeValidate ==
    /\ pcMerge = "validate"
    /\ IF Len(metadata[NameIndex(base_name)].shape) # 5 THEN
           /\ MergeRaise("not_5d", base_name)
           /\ UNCHANGED total_variables
       ELSE
           LET v == ValidateFrom(metadata, 1, 0)
           IN  IF v.error # "" THEN
                   /\ MergeRaise(v.error, v.name)
                   /\ UNCHANGED total_variables
               ELSE
                   /\ total_variables' = v.total
                   /\ pcMerge' = "allocate"
                   /\ UNCHANGED resMerge
    /\ UNCHANGED <<disk, dsIndex, data, metadata, base_coords_t0, final_timeseries,
                   final_shape, current_var_index, loads, held>>
    /\ UNCHANGED <<varsDuvw, varsTec, varsCalls, varsGrid, varsStore>>

\* Lines 92-98: the final array is allocated; np.zeros refuses a negative
\* extent.
MergeAllocate ==
    /\ pcMerge = "allocate"
    /\ LET b == metadata[NameIndex(base_name)].shape
           sh == <<b[1], b[2], b[3], b[4], total_variables>>
       IN  /\ final_shape' = sh
           /\ IF total_variables < 0 THEN
                  /\ MergeRaise("negative_dimensions", "")
                  /\ UNCHANGED <<final_timeseries, current_var_index>>
              ELSE
                  /\ final_timeseries' = Zeros5(sh)
                  /\ current_var_index' = 0
                  /\ pcMerge' = "copy_load"
                  /\ UNCHANGED resMerge
    /\ UNCHANGED <<disk, dsIndex, data, metadata, base_coords_t0, total_variables, loads,
                   held>>
    /\ UNCHANGED <<varsDuvw, varsTec, varsCalls, varsGrid, varsStore>>

\* Line 101: data = load_object(path) in pass 2.  The file holds what it
\* held in pass 1, unless it has become unreadable (None).
MergeLoadCopy ==
    /\ pcMerge = "copy_load"
    /\ loads' = Append(loads, <<2, Names[dsIndex]>>)
    /\ \/ /\ data' = NoneObject
          /\ UNCHANGED <<disk, held>>
       \/ \E off \in Offsets :
            /\ disk[dsIndex].off \in {0 - 1, off}
            /\ disk' = [disk EXCEPT ![dsIndex].off = off]
            /\ data' = Dataset(Names[dsIndex], disk[dsIndex].shape, off, disk[dsIndex].nlabels)
            /\ held' = held \cup {Names[dsIndex]}
    /\ pcMerge' = "copy"
    /\ UNCHANGED <<dsIndex, metadata, base_coords_t0, total_variables, final_timeseries,
                   final_shape, current_var_index, resMerge>>
    /\ UNCHANGED <<varsDuvw, varsTec, varsCalls, varsGrid, varsStore>>

\* np.allclose(timeseries[0, ..., :3], base_coords_t0) of a 5-D dataset on
\* the base's grid, whose slices have nd and nb columns.
AllCloseCoords(d, coords, nd, nb) ==
    \A x \in Range(d.shape[2]), y \in Range(d.shape[3]), z \in Range(d.shape[4]),
       v \in Range(Max(nd, nb)) :
        IsClose(TimeseriesOf(d, 0, x, y, z, IF nd = 1 THEN 0 ELSE v),
                coords[x][y][z][IF nb = 1 THEN 0 ELSE v])

\* final_timeseries[..., cols] = the `width` columns of the dataset from
\* column `first` on (one column is broadcast to every target column).
AssignColumns(final, cols, d, first, width) ==
    LET lo == IF cols = {} THEN 0 ELSE CHOOSE c \in cols : \A c2 \in cols : c <= c2
    IN  [t \in DOMAIN final |-> [x \in DOMAIN final[t] |-> [y \in DOMAIN final[t][x] |->
            [z \in DOMAIN final[t][x][y] |-> [v \in DOMAIN final[t][x][y][z] |->
                IF v \in cols
                THEN TimeseriesOf(d, t, x, y, z, first + (IF width = 1 THEN 0 ELSE v - lo))
                ELSE final[t][x][y][z][v]]]]]]

\* num_vars_to_copy and the copy of one dataset (lines 104-113): what is
\* raised, or the new array.
CopyOf(d, final, cur) ==
    IF d.name = base_name THEN
        LET n == d.shape[5]
            cols == SliceRange(0, n, final_shape[5])
        IN  IF ~Broadcasts(n, Cardinality(cols))
            THEN [error |-> "broadcast", n |-> n, final |-> final]
            ELSE [error |-> "", n |-> n, final |-> AssignColumns(final, cols, d, 0, n)]
    ELSE
        LET nd == Min(3, d.shape[5])
            nb == Min(3, metadata[NameIndex(base_name)].shape[5])
            n == d.shape[5] - 3
            width == Max(n, 0)
            cols == SliceRange(cur, cur + n, final_shape[5])
        IN  IF ~BroadcastTogether(nd, nb)
            THEN [error |-> "broadcast", n |-> n, final |-> final]
            ELSE IF ~AllCloseCoords(d, base_coords_t0, nd, nb)
            THEN [error |-> "coordinate_mismatch", n |-> n, final |-> final]
            ELSE IF ~Broadcasts(width, Cardinality(cols))
            THEN [error |-> "broadcast", n |-> n, final |-> final]
            ELSE [error |-> "", n |-> n, final |-> AssignColumns(final, cols, d, 3, width)]

\* A pass-2 iteration that ends the loop after the third dataset.
MergeCopyStopsEarly ==
    /\ pcMerge = "copy"
    /\ IF data.state = "none" THEN
           \* data['timeseries'] of None
           /\ MergeRaise("type_error", "")
           /\ UNCHANGED <<dsIndex, data, held, final_timeseries, current_var_index>>
       ELSE
           LET c == CopyOf(data, final_timeseries, current_var_index)
           IN  IF c.error # "" THEN
                   /\ MergeRaise(c.error, IF c.error = "coordinate_mismatch" THEN data.name ELSE "")
                   /\ UNCHANGED <<dsIndex, data, held, final_timeseries, current_var_index>>
               ELSE
                   /\ final_timeseries' = c.final
                   /\ current_var_index' = current_var_index + c.n
                   \* del data, timeseries; gc.collect()
                   /\ data' = Unbound
                   /\ held' = held \ {data.name}
                   /\ IF dsIndex < Len(Names) - 1
                      THEN dsIndex' = dsIndex + 1 /\ pcMerge' = "copy_load"
                      ELSE dsIndex' = 1 /\ pcMerge' = "finish"
                   /\ UNCHANGED resMerge
    /\ UNCHANGED <<disk, metadata, base_coords_t0, total_variables, final_shape, loads>>
    /\ UNCHANGED <<varsDuvw, varsTec, varsCalls, varsGrid, varsStore>>

\* A pass-2 iteration that does not advance the column index.
MergeCopySameColumns ==
    /\ pcMerge = "copy"
    /\ IF data.state = "none" THEN
           \* data['timeseries'] of None
           /\ MergeRaise("type_error", "")
           /\ UNCHANGED <<dsIndex, data, held, final_timeseries, current_var_index>>
       ELSE
           LET c == CopyOf(data, final_timeseries, current_var_index)
           IN  IF c.error # "" THEN
                   /\ MergeRaise(c.error, IF c.error = "coordinate_mismatch" THEN data.name ELSE "")
                   /\ UNCHANGED <<dsIndex, data, held, final_timeseries, current_var_index>>
               ELSE
                   /\ final_timeseries' = c.final
                   /\ current_var_index' = current_var_index
                   \* del data, timeseries; gc.collect()
                   /\ data' = Unbound
                   /\ held' = held \ {data.name}
                   /\ IF dsIndex < Len(Names)
                      THEN dsIndex' = dsIndex + 1 /\ pcMerge' = "copy_load"
                      ELSE dsIndex' = 1 /\ pcMerge' = "finish"
                   /\ UNCHANGED resMerge
    /\ UNCHANGED <<disk, metadata, base_coords_t0, total_variables, final_shape, loads>>
    /\ UNCHANGED <<varsDuvw, varsTec, varsCalls, varsGrid, varsStore>>

\* Lines 102-117: the rest of a pass-2 iteration.
MergeCopy ==
    /\ pcMerge = "copy"
    /\ IF data.state = "none" THEN
           \* data['timeseries'] of None
           /\ MergeRaise("type_error", "")
           /\ UNCHANGED <<dsIndex, data, held, final_timeseries, current_var_index>>
       ELSE
           LET c == CopyOf(data, final_timeseries, current_var_index)
           IN  IF c.error # "" THEN
                   /\ MergeRaise(c.error, IF c.error = "coordinate_mismatch" THEN data.name ELSE "")
                   /\ UNCHANGED <<dsIndex, data, held, final_timeseries, current_var_index>>
               ELSE
                   /\ final_timeseries' = c.final
                   /\ current_var_index' = current_var_index + c.n
                   \* del data, timeseries; gc.collect()
                   /\ data' = Unbound
                   /\ held' = held \ {data.name}
                   /\ IF dsIndex < Len(Names)
                      THEN dsIndex' = dsIndex + 1 /\ pcMerge' = "copy_load"
                      ELSE dsIndex' = 1 /\ pcMerge' = "finish"
                   /\ UNCHANGED resMerge
    /\ UNCHANGED <<disk, metadata, base_coords_t0, total_variables, final_shape, loads>>
    /\ UNCHANGED <<varsDuvw, varsTec, varsCalls, varsGrid, varsStore>>

\* labels[3:]
From3(labels) == SubSeq(labels, 4, Len(labels))

\* Lines 119-132: the labels are joined and the dataset is returned.
MergeFinish ==
    /\ pcMerge = "finish"
    /\ pcMerge' = "done"
    /\ resMerge' = [kind |-> "ok",
                    timeseries |-> final_timeseries,
                    shape |-> final_shape,
                    labels |-> metadata[1].labels \o From3(metadata[2].labels)
                               \o From3(metadata[3].labels) \o From3(metadata[4].labels)]
    /\ UNCHANGED <<disk, dsIndex, data, metadata, base_coords_t0, total_variables,
                   final_timeseries, final_shape, current_var_index, loads, held>>
    /\ UNCHANGED <<varsDuvw, varsTec, varsCalls, varsGrid, varsStore>>

NextMerge == MergeLoadScan \/ MergeScan \/ MergeValidate \/ MergeAllocate
             \/ MergeLoadCopy \/ MergeCopy \/ MergeFinish

----------------------------------------------------------------------------
\* get_grid_dimensions called on an array (tecplot_data.py:176-230,
\* utils.py:176-222).

\* The values a cell holds.
CellValues == {0, 1}

\* A snapshot whose cells all hold c.
ConstantSnapshot(npoints, nvars, c) == [r \in Range(npoints) |-> [v \in Range(nvars) |-> c]]

\* The 3-D arrays of the model: any first snapshot, each later one constant.
Arrays3 ==
    UNION {
        {[shape |-> <<nt, np, nv>>,
          cells |-> [t \in Range(nt) |->
                        IF t = 0 THEN first ELSE ConstantSnapshot(np, nv, later[t])]] :
            first \in [Range(np) -> [Range(nv) -> CellValues]],
            later \in [1..(nt - 1) -> CellValues]} :
        nt \in 1..MaxSnapshots, np \in 1..MaxPoints, nv \in {2, 3}}

\* Arrays without elements, and arrays that are not 3-D.
EmptyArrays == {[shape |-> sh, cells |-> <<>>] : sh \in {<<0, 2, 3>>, <<1, 0, 3>>, <<2, 2, 0>>}}
OtherRankArrays == {[shape |-> sh, cells |-> <<>>] : sh \in {<<2, 3>>, <<1, 1, 1, 1, 3>>}}

\* The coord_indices of the model (-1 is written 0 - 1).
IndexTuples ==
    {<<0, 1, 2>>, <<2, 1, 0>>, <<0, 0, 1>>, <<0, 1>>, <<>>, <<0, 1, 2, 2>>,
     <<0 - 1, 1, 2>>, <<0, 1, 3>>}

IdleGrid ==
    /\ gridArray = [shape |-> <<>>, cells |-> <<>>]
    /\ gridIndices = <<>>
    /\ pcGrid = "idle"
    /\ gridResult = NoResult

InitGrid ==
    /\ gridArray \in Arrays3 \cup EmptyArrays \cup OtherRankArrays
    /\ gridIndices \in IndexTuples
    /\ pcGrid = "ready"
    /\ gridResult = NoResult

\* The call: the function reads the array and assigns to none of its cells.
GridCall ==
    /\ pcGrid = "ready"
    /\ gridResult' = get_grid_dimensions(gridArray.cells, gridArray.shape, gridIndices)
    /\ pcGrid' = "done"
    /\ UNCHANGED <<gridArray, gridIndices>>
    /\ UNCHANGED <<varsDuvw, varsTec, varsMerge, varsCalls, varsStore>>

NextGrid == GridCall

----------------------------------------------------------------------------
\* A dataset saved to a file and loaded back (utils/pickle_io.py,
\* utils/numpy_io.py), and the verification step of the scripts that do so
\* (store_duvw_as_pickle.py, merge_data.py).

\* Largest number of labels of a saved dataset.
MaxLabels == 2

\* The cell values of a saved array: two numbers and a not-a-number.
NaN == 0 - 1
StoreValues == {0, 1, NaN}

\* The Python values of the model: a list, and an ndarray with its dtype and
\* shape; both hold their elements in row-major order.
PyList(items) ==
    [type |-> "list", dtype |-> "", shape |-> <<Len(items)>>, items |-> items]
NdArray(dtype, shape, items) ==
    [type |-> "ndarray", dtype |-> dtype, shape |-> shape, items |-> items]

\* The label lists of at most n labels.
RECURSIVE LabelLists(_)
LabelLists(n) ==
    IF n = 0 THEN {<<>>}
    ELSE LabelLists(n - 1)
         \cup {Append(l, c) : l \in {m \in LabelLists(n - 1) : Len(m) = n - 1},
                              c \in {"x", "y"}}

\* The shapes of the saved arrays: (T, 1, 1) as a decoder returns it and
\* (T, 1, 1, 1, 1) as the merge returns it.
StoreShapes == UNION {{<<t, 1, 1>>, <<t, 1, 1, 1, 1>>} : t \in 1..MaxT}

\* The dictionaries {timeseries, labels} of the model.
Datasets ==
    UNION {{[timeseries |-> NdArray("float64", sh, cells), labels |-> PyList(l)] :
               cells \in [1..sh[1] -> StoreValues], l \in LabelLists(MaxLabels)} :
           sh \in StoreShapes}

\* pickle.dump(obj, f): the stream holds the object, each value with its
\* type and its elements.
save_object(o) == [format |-> "pickle", compressed |-> FALSE, fields |-> o]

\* pickle.load(f)
load_object(a) == a.fields

\* np.asanyarray(v), as np.savez applies it to every keyword: an array is
\* kept, a list of strings becomes a 1-D array of strings, and an empty list
\* a 1-D float64 array without elements.
asanyarray(v) ==
    IF v.type = "ndarray" THEN v
    ELSE IF v.items = <<>> THEN NdArray("float64", <<0>>, <<>>)
    ELSE NdArray("str", <<Len(v.items)>>, v.items)

\* np.savez_compressed(file_path, **obj) or np.savez(file_path, **obj)
save_numpy_object(o, compressed) ==
    [format |-> "npz", compressed |-> compressed,
     fields |-> [key \in DOMAIN o |-> asanyarray(o[key])]]

\* load_numpy_object: a 0-d array is unpacked with .item(), any other array
\* is returned as the array it is.
load_numpy_object(a) ==
    [key \in DOMAIN a.fields |->
        IF a.fields[key].shape = <<>>
        THEN [type |-> "scalar", dtype |-> a.fields[key].dtype, shape |-> <<>>,
              items |-> a.fields[key].items]
        ELSE a.fields[key]]

\* np.array_equal(a, b): the shapes are equal and every element equals its
\* counterpart; a not-a-number equals nothing.
array_equal(a, b) ==
    /\ a.shape = b.shape
    /\ \A k \in 1..Len(a.items) : a.items[k] # NaN /\ a.items[k] = b.items[k]

\* timeseries[0] of an array whose snapshots have one element each.
FirstSnapshot(a) == NdArray(a.dtype, Tail(a.shape), SubSeq(a.items, 1, 1))

\* The truth values `assert a == b` can take for two label values, or
\* "value_error".  Two lists compare as a whole.  A list and an array
\* compare element by element: the result is an array, whose truth value is
\* that of its only element, is refused for more than one element, and for
\* no element is False or refused, depending on the NumPy version.
LabelsEqualTruth(a, b) ==
    IF a.type = "list" /\ b.type = "list" THEN
        {IF a.items = b.items THEN "true" ELSE "false"}
    ELSE IF Len(a.items) # Len(b.items) THEN {"value_error"}
    ELSE IF Len(a.items) = 0 THEN {"false", "value_error"}
    ELSE IF Len(a.items) > 1 THEN {"value_error"}
    ELSE {IF a.items[1] = b.items[1] THEN "true" ELSE "false"}

\* store_duvw_as_pickle.py, lines 83-94: the arrays are compared, then the
\* labels.
VerifyStore(o, l) ==
    IF ~array_equal(o.timeseries, l.timeseries) THEN {"assertion_error"}
    ELSE {IF t = "true" THEN "ok" ELSE IF t = "false" THEN "assertion_error" ELSE t :
             t \in LabelsEqualTruth(o.labels, l.labels)}

\* merge_data.py, lines 73-98: the shapes of the first snapshots are
\* compared, then the labels, then the first snapshots.
VerifyMerge(o, l) ==
    IF FirstSnapshot(o.timeseries).shape # FirstSnapshot(l.timeseries).shape
    THEN {"assertion_error"}
    ELSE {IF t = "true"
          THEN (IF array_equal(FirstSnapshot(o.timeseries), FirstSnapshot(l.timeseries))
                THEN "ok" ELSE "assertion_error")
          ELSE IF t = "false" THEN "assertion_error" ELSE t :
             t \in LabelsEqualTruth(o.labels, l.labels)}

IdleStore ==
    /\ obj = <<>>
    /\ encoding = ""
    /\ archive = <<>>
    /\ loaded = <<>>
    /\ verified = ""
    /\ pcStore = "idle"

InitStore ==
    /\ obj \in Datasets
    /\ encoding \in {"pickle", "npz", "npz_compressed"}
    /\ archive = <<>>
    /\ loaded = <<>>
    /\ verified = ""
    /\ pcStore = "save"

\* The script saves the dataset: save_object, or save_numpy_object with or
\* without compression.
StoreSave ==
    /\ pcStore = "save"
    /\ archive' = IF encoding = "pickle" THEN save_object(obj)
                  ELSE save_numpy_object(obj, encoding = "npz_compressed")
    /\ pcStore' = "load"
    /\ UNCHANGED <<obj, encoding, loaded, verified>>
    /\ UNCHANGED <<varsDuvw, varsTec, varsMerge, varsCalls, varsGrid>>

\* The script loads the file it has written.
StoreLoad ==
    /\ pcStore = "load"
    /\ loaded' = IF archive.format = "pickle" THEN load_object(archive)
                 ELSE load_numpy_object(archive)
    /\ pcStore' = "verify"
    /\ UNCHANGED <<obj, encoding, archive, verified>>
    /\ UNCHANGED <<varsDuvw, varsTec, varsMerge, varsCalls, varsGrid>>

\* The script compares what it loaded with what it saved.
StoreVerify ==
    /\ pcStore = "verify"
    /\ verified' \in (IF encoding = "pickle" THEN VerifyStore(obj, loaded)
                      ELSE VerifyMerge(obj, loaded))
    /\ pcStore' = "done"
    /\ UNCHANGED <<obj, encoding, archive, loaded>>
    /\ UNCHANGED <<varsDuvw, varsTec, varsMerge, varsCalls, varsGrid>>

NextStore == StoreSave \/ StoreLoad \/ StoreVerify

----------------------------------------------------------------------------
\* The specifications: one program runs, the others stay idle.

vars == <<varsDuvw, varsTec, varsMerge, varsCalls, varsGrid, varsStore>>

\* No call has ended yet.
FirstCall == callNo = 1 /\ firstResult = NoResult

\* parse_duvw_binary is called on some file.
StartDuvw == InitDuvw /\ IdleTec /\ IdleMerge /\ FirstCall /\ IdleGrid /\ IdleStore
SpecDuvw == StartDuvw /\ [][NextDuvw]_vars

\* parse_tecplot_timeseries is called on some file.
StartTecplot == InitTec /\ IdleDuvw /\ IdleMerge /\ FirstCall /\ IdleGrid /\ IdleStore
SpecTecplot == StartTecplot /\ [][NextTec]_vars

\* get_grid_dimensions is called on an array.
StartGrid == InitGrid /\ IdleDuvw /\ IdleTec /\ IdleMerge /\ FirstCall /\ IdleStore
SpecGrid == StartGrid /\ [][NextGrid]_vars

\* load_and_concatenate_data is called on four paths.
StartMerge == InitMerge /\ IdleDuvw /\ IdleTec /\ FirstCall /\ IdleGrid /\ IdleStore
SpecMerge == StartMerge /\ [][NextMerge]_vars

\* A script saves a dataset, loads it back and verifies it.
StartStore == InitStore /\ IdleDuvw /\ IdleTec /\ IdleMerge /\ FirstCall /\ IdleGrid
SpecStore == StartStore /\ [][NextStore]_vars

----------------------------------------------------------------------------
\* Properties of parse_duvw_binary.

\* The call has ended, with a dataset or with an error.
DuvwEnded == pcDuvw \in {"done", "error"}
DuvwReturned == resDuvw.kind = "ok"

\* A valid binary file: it exists and holds one or more whole blocks of the
\* size its first header gives, 12 + nx*ny*nz*6*8, and nothing else.
ValidBinary(f) ==
    /\ f.exists
    /\ f.size > 0
    /\ BlockFits(f.hdr)
    /\ f.size % TrueBlock(f.hdr) = 0

\* The output row of grid point (ix, iy, iz): x varies fastest, then y, then z.
PointIndex(ix, iy, iz, h) == ix + h[1] * iy + h[1] * h[2] * iz

\* C1: every decoded record is the stored record of its grid point: the value
\* of variable v at point (ix, iy, iz) of timestep t is the stored value at
\* flat position 6*(ix + nx*iy + nx*ny*iz) + v of block t.
C1_RecordsKeptTogether ==
    DuvwReturned =>
        \A t \in Range(num_timesteps), ix \in Range(dims[1]), iy \in Range(dims[2]),
           iz \in Range(dims[3]), v \in Range(num_variables) :
            resDuvw.timeseries[t][PointIndex(ix, iy, iz, dims)][v]
                = Stored(t, num_variables * PointIndex(ix, iy, iz, dims) + v)

\* A file with a readable first header whose size is not an exact multiple of
\* the block size 12 + nx*ny*nz*6*8 of that header.
SizeNotMultiple(f) ==
    /\ f.exists
    /\ f.size >= header_size_bytes
    /\ ~(BlockFits(f.hdr) /\ f.size % TrueBlock(f.hdr) = 0)

\* C4: a file whose size is not a multiple of the block size of its first
\* header ends in the corrupt-format error, and never in a dataset.
C4_NotMultipleIsCorrupt ==
    (SizeNotMultiple(file) /\ DuvwEnded) => resDuvw = ErrorResult("corrupt_format")

\* C6 as stated: the returned array has the five axes (T, nx, ny, nz, 6).
C6_FiveAxes ==
    (ValidBinary(file) /\ DuvwEnded) =>
        /\ DuvwReturned
        /\ resDuvw.shape = <<file.size \div TrueBlock(file.hdr),
                             file.hdr[1], file.hdr[2], file.hdr[3], num_variables>>
        /\ resDuvw.labels = <<"x", "y", "z", "var1", "var2", "var3">>

\* Whether a is an array of extents (n0, n1, n2).
IsArray3(a, n0, n1, n2) ==
    /\ DOMAIN a = Range(n0)
    /\ \A t \in Range(n0) :
        /\ DOMAIN a[t] = Range(n1)
        /\ \A p \in Range(n1) : DOMAIN a[t][p] = Range(n2)

\* C6, amended: a valid file decodes to an array with the three axes
\* (T, nx*ny*nz, 6), T = file_size / (12 + nx*ny*nz*6*8), with the fixed
\* labels; and no other file decodes to anything else.
C6_ThreeAxes ==
    /\ (ValidBinary(file) /\ DuvwEnded) => DuvwReturned
    /\ DuvwReturned =>
        /\ ValidBinary(file)
        /\ resDuvw.shape = <<file.size \div TrueBlock(file.hdr),
                             TruePoints(file.hdr), num_variables>>
        /\ IsArray3(resDuvw.timeseries, resDuvw.shape[1], resDuvw.shape[2], resDuvw.shape[3])
        /\ resDuvw.labels = <<"x", "y", "z", "var1", "var2", "var3">>

\* A file of two blocks on a 2 x 2 x 1 grid has been decoded.
C6_Witness ==
    /\ DuvwReturned
    /\ file.hdr = <<2, 2, 1>>
    /\ resDuvw.shape = <<2, 4, 6>>

----------------------------------------------------------------------------
\* Properties of parse_tecplot_timeseries.

TecEnded == pcTec \in {"done", "error"}
TecReturned == resTec.kind = "ok"

LinesOfKind(ls, kind) == {k \in 1..Len(ls) : ls[k].kind = kind}
NumTitle(ls) == Cardinality(LinesOfKind(ls, "title"))

\* The labels in force when line k is read: the quoted tokens of the first
\* VARIABLES line before it that has any, else none.
LabelLines(ls, k) == {j \in 1..(k - 1) : ls[j].kind = "variables" /\ ls[j].tokens # <<>>}
HeadersAt(ls, k) ==
    IF LabelLines(ls, k) = {} THEN <<>>
    ELSE ls[CHOOSE j \in LabelLines(ls, k) : \A m \in LabelLines(ls, k) : j <= m].tokens

\* A data line that holds a token that is no number, or whose number of
\* values differs from the number of labels.
IsBadRow(ln, hs) ==
    /\ ln.kind = "data"
    /\ \/ \E k \in 1..Len(ln.tokens) : ~IsNumeric(ln.tokens[k])
       \/ Len(ln.tokens) # Len(hs)
BadLines(ls) == {k \in 1..Len(ls) : IsBadRow(ls[k], HeadersAt(ls, k))}

\* The data lines of the TITLE block that starts at line k.
BlockRows(ls, k) ==
    {j \in LinesOfKind(ls, "data") :
        j > k /\ ~\E m \in LinesOfKind(ls, "title") : k < m /\ m < j}

\* A valid ASCII input: a TITLE line and a VARIABLES line with labels come
\* before the first data row, every data row is a row of numbers with one
\* value per label, and every TITLE block has the same number (one or more)
\* of rows.
ValidAscii(ls) ==
    /\ LinesOfKind(ls, "title") # {}
    /\ BadLines(ls) = {}
    /\ \A j \in LinesOfKind(ls, "data") : \E k \in LinesOfKind(ls, "title") : k < j
    /\ \A k \in LinesOfKind(ls, "title") : BlockRows(ls, k) # {}
    /\ \A k, m \in LinesOfKind(ls, "title") :
        Cardinality(BlockRows(ls, k)) = Cardinality(BlockRows(ls, m))
RowsPerBlock(ls) ==
    Cardinality(BlockRows(ls, CHOOSE k \in LinesOfKind(ls, "title") : TRUE))
NumLabels(ls) == Len(HeadersAt(ls, Len(ls) + 1))

\* C5 as stated: a valid input decodes to an array of shape
\* (TITLE blocks, nx, ny, nz, labels) with nx*ny*nz the rows of a block.
C5_FiveAxes ==
    (TecEnded /\ ValidAscii(lines)) =>
        /\ TecReturned
        /\ Len(resTec.shape) = 5
        /\ resTec.shape[1] = NumTitle(lines)
        /\ resTec.shape[2] * resTec.shape[3] * resTec.shape[4] = RowsPerBlock(lines)
        /\ resTec.shape[5] = NumLabels(lines)

\* C5, amended: a valid input decodes to an array with the three axes
\* (TITLE blocks, rows of a block, labels).
C5_ThreeAxes ==
    (TecEnded /\ ValidAscii(lines)) =>
        /\ TecReturned
        /\ resTec.shape = <<NumTitle(lines), RowsPerBlock(lines), NumLabels(lines)>>
        /\ IsArray3(resTec.timeseries, resTec.shape[1], resTec.shape[2], resTec.shape[3])

\* A valid file of two TITLE blocks has been decoded.
C5_Witness ==
    /\ TecEnded
    /\ ValidAscii(lines)
    /\ NumTitle(lines) = 2
    /\ TecReturned

EmptyDataset(res, shape) ==
    /\ res.kind = "ok"
    /\ res.shape = shape
    /\ res.labels = <<>>

\* C8 as stated: a file without a TITLE line or without a VARIABLES line
\* decodes to the empty dataset of shape (0,0,0,0,0) with no labels.
C8_EmptyFiveAxes ==
    (TecEnded /\ (LinesOfKind(lines, "title") = {} \/ LinesOfKind(lines, "variables") = {})) =>
        EmptyDataset(resTec, <<0, 0, 0, 0, 0>>)

\* C8, amended: a file without a VARIABLES line decodes, without an error, to
\* the empty dataset of shape (0,0,0) with no labels, whatever rows it holds;
\* a file without a TITLE line decodes without an error too, to the empty
\* dataset or to a single snapshot of its accepted rows.
C8_EmptyThreeAxes ==
    /\ (TecEnded /\ LinesOfKind(lines, "variables") = {}) =>
           EmptyDataset(resTec, <<0, 0, 0>>)
    /\ (TecEnded /\ LinesOfKind(lines, "title") = {}) =>
           /\ TecReturned
           /\ \/ EmptyDataset(resTec, <<0, 0, 0>>)
              \/ /\ resTec.shape[1] = 1
                 /\ resTec.shape[2] = Cardinality(LinesOfKind(lines, "data") \ BadLines(lines))
                 /\ resTec.labels = HeadersAt(lines, Len(lines) + 1)

\* A file that holds data rows and no VARIABLES line has been decoded.
C8_Witness ==
    /\ TecEnded
    /\ LinesOfKind(lines, "variables") = {}
    /\ LinesOfKind(lines, "data") # {}
    /\ LinesOfKind(lines, "title") # {}

\* The first snapshot is not a complete structured grid: the product of the
\* distinct-value counts of its coordinate columns 0, 1, 2 is not its number
\* of rows.
FirstSnapshotIncomplete ==
    /\ all_snapshots # <<>>
    /\ LET first == <<all_snapshots[1]>>
           shape == <<1, Len(first[1]), Len(first[1][1])>>
           g == get_grid_dimensions(NpArray3(first), shape, <<0, 1, 2>>)
       IN  /\ ~g.none
           /\ g.grid[1] * g.grid[2] * g.grid[3] # Len(first[1])

\* C9 as stated: an input whose first snapshot is not a complete grid ends in
\* an incomplete-grid error.
C9_IncompleteRejected ==
    (TecEnded /\ FirstSnapshotIncomplete) =>
        /\ resTec.kind = "error"
        /\ resTec.error = "incomplete_grid"

\* C9, amended: the decode does not check the grid: an input whose first
\* snapshot is not a complete grid is decoded like any other, to a dataset
\* that holds the rows of that snapshot as they were read when all snapshots
\* have the same number of rows, and to the error of stacking unequal
\* snapshots otherwise.
C9_IncompleteAccepted ==
    (TecEnded /\ FirstSnapshotIncomplete) =>
        IF Homogeneous(all_snapshots)
        THEN /\ TecReturned
             /\ resTec.shape = <<Len(all_snapshots), Len(all_snapshots[1]), Len(headers)>>
             /\ \A r \in 1..Len(all_snapshots[1]), c \in 1..Len(headers) :
                    resTec.timeseries[0][r - 1][c - 1] = all_snapshots[1][r][c]
        ELSE resTec = ErrorResult("inhomogeneous")

\* An input whose first snapshot repeats a grid point has been decoded.
C9_Witness ==
    /\ TecEnded
    /\ FirstSnapshotIncomplete
    /\ TecReturned

----------------------------------------------------------------------------
\* Properties of load_and_concatenate_data.

MergeReturned == resMerge.kind = "ok"

\* The variable count of the n-th dataset, read from its file.
NumVars(n) == disk[n].shape[Len(disk[n].shape)]

RECURSIVE ColumnOffset(_)
\* Where the columns of the n-th dataset start in a merged array that holds
\* the base's variables and then each delta's variables from index 3 on.
ColumnOffset(n) ==
    IF n = 1 THEN 0
    ELSE IF n = 2 THEN NumVars(1)
    ELSE ColumnOffset(n - 1) + (NumVars(n - 1) - 3)

\* Whether the merged array holds, in column c of every grid point, column v
\* of the n-th file.
HoldsColumn(a, c, n, v) ==
    /\ c \in Range(final_shape[5])
    /\ \A t \in Range(final_shape[1]), x \in Range(final_shape[2]),
          y \in Range(final_shape[3]), z \in Range(final_shape[4]) :
           a[t][x][y][z][c] = Cell(Names[n], disk[n].off, t, x, y, z, v)

\* C2: every merged dataset holds the base's variables, then du's, dv's and
\* dw's variables from index 3 on, each cell equal to the input cell at the
\* same (t, x, y, z).
C2_MergedLayout ==
    MergeReturned =>
        /\ \A v \in Range(NumVars(1)) : HoldsColumn(resMerge.timeseries, v, 1, v)
        /\ \A n \in 2..Len(Names) : \A v \in 3..(NumVars(n) - 1) :
               HoldsColumn(resMerge.timeseries, ColumnOffset(n) + v - 3, n, v)

\* C3: the variable count of every merged dataset is the base's variable
\* count plus, for each delta, its variable count minus 3.
C3_MergedVariableCount ==
    MergeReturned =>
        /\ resMerge.shape[5] = NumVars(1) + (NumVars(2) - 3) + (NumVars(3) - 3) + (NumVars(4) - 3)
        /\ \A t \in Range(resMerge.shape[1]), x \in Range(resMerge.shape[2]),
              y \in Range(resMerge.shape[3]), z \in Range(resMerge.shape[4]) :
               DOMAIN resMerge.timeseries[t][x][y][z] = Range(resMerge.shape[5])

\* A base of 5 variables and a delta of 3 coordinates and 1 variable were
\* merged into 6 variables.
C3_Witness ==
    /\ MergeReturned
    /\ NumVars(1) = 5 /\ NumVars(2) = 4 /\ NumVars(3) = 3 /\ NumVars(4) = 3
    /\ resMerge.shape[5] = 6

\* The files read so far that are 5-D.
Is5D(n) == Len(disk[n].shape) = 5
\* The n-th file is a 5-D delta whose timestep count or spatial extent is
\* not that of the 5-D base.
GridDiffers(n) ==
    /\ n > 1 /\ Is5D(1) /\ Is5D(n)
    /\ \E a \in 1..4 : disk[n].shape[a] # disk[1].shape[a]
ValidationDone == pcMerge \notin {"scan_load", "scan", "validate"}

\* C10: a delta whose timestep count or spatial extent differs from the
\* base's is never merged: from the moment it is read the final array is
\* never allocated and no dataset is returned, and once the four 5-D
\* datasets have been validated the call has failed with the
\* dimension-mismatch error of the first such delta.
C10_MismatchRejected ==
    /\ (\E n \in 2..Len(Names) : GridDiffers(n)) =>
           /\ final_timeseries = <<>>
           /\ ~MergeReturned
           /\ pcMerge \notin {"allocate", "copy_load", "copy", "finish", "done"}
    /\ \A n \in 2..Len(Names) :
           (/\ ValidationDone
            /\ \A m \in 1..Len(Names) : Is5D(m)
            /\ GridDiffers(n)
            /\ \A m \in 2..(n - 1) : ~GridDiffers(m))
           => /\ resMerge.kind = "error"
              /\ resMerge.error = "dimension_mismatch"
              /\ resMerge.name = Names[n]

\* dw alone differs from the base, in its last spatial extent, and the call
\* has failed.
C10_Witness ==
    /\ ValidationDone
    /\ \A m \in 1..Len(Names) : Is5D(m)
    /\ ~GridDiffers(2) /\ ~GridDiffers(3)
    /\ disk[4].shape[4] # disk[1].shape[4]
    /\ \A a \in 1..3 : disk[4].shape[a] = disk[1].shape[a]
    /\ resMerge.kind = "error"

\* |a - b| > 1e-8 + 1e-5 * |b|, on values in units of 1e-8.
OutOfTolerance(a, b) == 100000 * Abs(a - b) > 100000 + Abs(b)

\* The n-th file is a delta that pass 2 has read, base and delta hold three
\* coordinate columns, and some timestep-0 coordinate of the delta is out of
\* tolerance of the base's.
CoordsDiffer(n) ==
    /\ n > 1 /\ disk[n].off >= 0
    /\ NumVars(1) >= 3 /\ NumVars(n) >= 3
    /\ \E x \in Range(disk[1].shape[2]), y \in Range(disk[1].shape[3]),
          z \in Range(disk[1].shape[4]), v \in 0..2 :
           OutOfTolerance(Cell(Names[n], disk[n].off, 0, x, y, z, v),
                          Cell(base_name, disk[1].off, 0, x, y, z, v))

\* No cell of the array holds a non-coordinate value of the n-th file.
HoldsNothingOf(a, n) ==
    \A t \in Range(final_shape[1]), x \in Range(final_shape[2]), y \in Range(final_shape[3]),
       z \in Range(final_shape[4]), c \in Range(final_shape[5]), v \in 3..(NumVars(n) - 1) :
        a[t][x][y][z][c] # Cell(Names[n], disk[n].off, t, x, y, z, v)

\* C11: a delta read in pass 2 whose timestep-0 coordinates are out of
\* tolerance of the base's is rejected: the call never gets past the
\* iteration that read it, none of its columns is ever in the final array,
\* no dataset is returned, and that iteration ends the call with the
\* coordinate-mismatch error naming it.
C11_CoordinateMismatchRejected ==
    \A n \in 2..Len(Names) :
        CoordsDiffer(n) =>
            /\ pcMerge \in {"copy", "error"} /\ dsIndex = n
            /\ HoldsNothingOf(final_timeseries, n)
            /\ ~MergeReturned
            /\ pcMerge = "error" =>
                   /\ resMerge.kind = "error"
                   /\ resMerge.error = "coordinate_mismatch"
                   /\ resMerge.name = Names[n]

\* du was copied, and dv, which carries a variable, was rejected for its
\* coordinates.
C11_Witness ==
    /\ CoordsDiffer(3)
    /\ NumVars(2) = 4 /\ NumVars(3) = 4
    /\ pcMerge = "error"
    /\ HoldsColumn(final_timeseries, NumVars(1), 2, 3)

\* The labels the n-th file carries.
FileLabels(n) == LabelsOf(Names[n], disk[n].nlabels)

\* C12: the labels of every merged dataset are the base's labels, then du's,
\* dv's and dw's labels from index 3 on, and label i names the variable held
\* in column i: the base's variable i for a base label, variable v of the
\* delta for the delta's label v.
C12_LabelsNameColumns ==
    MergeReturned =>
        /\ resMerge.labels = FileLabels(1) \o From3(FileLabels(2))
                             \o From3(FileLabels(3)) \o From3(FileLabels(4))
        /\ Len(resMerge.labels) = resMerge.shape[5]
        /\ \A c \in 1..Len(resMerge.labels) :
               HoldsColumn(resMerge.timeseries, c - 1,
                           NameIndex(resMerge.labels[c][1]), resMerge.labels[c][2])

----------------------------------------------------------------------------
\* A decoder called twice on the same file.  Every variable of a decoder is
\* a local of the call (duvw.py:35-126, tecplot_data.py:50-115), so the second
\* call starts from the state the first one started from; the file is the
\* same.

DuvwCallAgain ==
    /\ pcDuvw \in {"done", "error"}
    /\ callNo = 1
    /\ callNo' = 2
    /\ firstResult' = resDuvw
    /\ pcDuvw' = "start"
    /\ dims' = <<>>
    /\ num_points' = 0
    /\ block_size_bytes' = 0
    /\ num_timesteps' = 0
    /\ fpos' = 0
    /\ i' = 0
    /\ timeseries_data' = <<>>
    /\ warned' = {}
    /\ resDuvw' = NoResult
    /\ UNCHANGED <<file, varsTec, varsMerge, varsGrid, varsStore>>

\* A second call that goes on with the snapshots of the first.
TecCallAgainKeepsSnapshots ==
    /\ pcTec \in {"done", "error"}
    /\ callNo = 1
    /\ callNo' = 2
    /\ firstResult' = resTec
    /\ pcTec' = "scan"
    /\ linesRead' = 0
    /\ current_snapshot_data' = <<>>
    /\ headers' = <<>>
    /\ skipped' = {}
    /\ resTec' = NoResult
    /\ UNCHANGED <<lines, all_snapshots, varsDuvw, varsMerge, varsGrid, varsStore>>

TecCallAgain ==
    /\ pcTec \in {"done", "error"}
    /\ callNo = 1
    /\ callNo' = 2
    /\ firstResult' = resTec
    /\ pcTec' = "scan"
    /\ linesRead' = 0
    /\ all_snapshots' = <<>>
    /\ current_snapshot_data' = <<>>
    /\ headers' = <<>>
    /\ skipped' = {}
    /\ resTec' = NoResult
    /\ UNCHANGED <<lines, varsDuvw, varsMerge, varsGrid, varsStore>>

StartDecode == StartDuvw \/ StartTecplot
NextDecode == NextDuvw \/ NextTec \/ DuvwCallAgain \/ TecCallAgain
SpecDecodeTwice == StartDecode /\ [][NextDecode]_vars

----------------------------------------------------------------------------
\* Properties of get_grid_dimensions.

GridDone == pcGrid = "done"

\* C14: get_grid_dimensions returns no dimensions whenever fewer than 3
\* coordinate indices are given, or an index is negative or not below the
\* variable count, or the array is empty or not of rank 3.
C14_InferenceFailure ==
    (/\ GridDone
     /\ \/ Len(gridIndices) < 3
        \/ Len(gridArray.shape) # 3
        \/ \E a \in 1..Len(gridArray.shape) : gridArray.shape[a] = 0
        \/ \E j \in 1..Len(gridIndices) :
               gridIndices[j] < 0 \/ gridIndices[j] >= gridArray.shape[3])
    => gridResult.none

\* A call with a negative index on an array of three variables has failed.
C14_Witness ==
    /\ GridDone
    /\ gridArray.shape = <<2, 2, 3>>
    /\ gridIndices = <<0 - 1, 1, 2>>
    /\ gridResult.none

\* A valid call: a 3-D array with elements and three indices of its columns.
ValidGridCall ==
    /\ Len(gridArray.shape) = 3
    /\ \A a \in 1..3 : gridArray.shape[a] > 0
    /\ Len(gridIndices) = 3
    /\ \A j \in 1..3 : 0 <= gridIndices[j] /\ gridIndices[j] < gridArray.shape[3]

\* The values found in column c among the points of the first snapshot.
FirstSnapshotValues(c) ==
    {x \in CellValues : \E r \in Range(gridArray.shape[2]) : gridArray.cells[0][r][c] = x}

\* The array with every later snapshot replaced by a constant one.
WithLaterSnapshots(c) ==
    [t \in Range(gridArray.shape[1]) |->
        IF t = 0 THEN gridArray.cells[0]
        ELSE ConstantSnapshot(gridArray.shape[2], gridArray.shape[3], c)]

\* C15: a valid call returns, for each of the three coordinate columns, the
\* number of distinct values among the points of the first snapshot; the
\* same array with other later snapshots gives the same result; and the call
\* leaves the array as it was.
C15_DistinctCountsOfFirstSnapshot ==
    /\ [](GridDone /\ ValidGridCall =>
            /\ ~gridResult.none
            /\ \A j \in 1..3 :
                   gridResult.grid[j] = Cardinality(FirstSnapshotValues(gridIndices[j]))
            /\ \A c \in CellValues :
                   get_grid_dimensions(WithLaterSnapshots(c), gridArray.shape, gridIndices)
                       = gridResult)
    /\ [][gridArray' = gridArray]_vars

\* A valid call on two snapshots has counted two x values and one y value
\* in the first, which the second snapshot does not share.
C15_Witness ==
    /\ GridDone /\ ValidGridCall
    /\ gridArray.shape = <<2, 2, 3>>
    /\ gridIndices = <<0, 1, 2>>
    /\ gridResult.grid = <<2, 1, 1>>
    /\ gridArray.cells[0][0][1] = 0
    /\ gridArray.cells[1][0][1] = 1

----------------------------------------------------------------------------
\* More properties of parse_duvw_binary.

\* The file holds a block after the first whose header differs from the
\* first block's.
HasOtherHeader(f) ==
    /\ ValidBinary(f)
    /\ f.alt >= 1
    /\ f.alt < f.size \div TrueBlock(f.hdr)

\* C16: a file with a block after the first whose header differs from the
\* first one's is decoded to the end: a warning is printed for that block and
\* for no other, all file_size / block_size timesteps are returned, and the
\* block is decoded as the others are, with the first header's dimensions.
C16_HeaderMismatchWarns ==
    (DuvwEnded /\ HasOtherHeader(file)) =>
        /\ DuvwReturned
        /\ warned = {file.alt}
        /\ resDuvw.shape = <<file.size \div TrueBlock(file.hdr), TruePoints(file.hdr),
                             num_variables>>
        /\ \A p \in Range(TruePoints(file.hdr)), v \in Range(num_variables) :
               resDuvw.timeseries[file.alt][p][v]
                   = Stored(file.alt, p + TruePoints(file.hdr) * v)

\* A file of two blocks on two points, the second with another header, has
\* been decoded.
C16_Witness ==
    /\ DuvwReturned
    /\ HasOtherHeader(file)
    /\ file.hdr = <<2, 1, 1>>
    /\ resDuvw.shape[1] = 2
    /\ warned = {1}

\* C17: a path that is not an existing file ends the call with the not-found
\* error, and a file whose first header read returns no value ends it with
\* the empty-file error; the error is raised to the caller and no dataset is
\* returned.
C17_NotFoundAndEmpty ==
    /\ (DuvwEnded /\ ~file.exists) =>
           pcDuvw = "error" /\ resDuvw = ErrorResult("not_found")
    /\ (DuvwEnded /\ file.exists /\ file.size < 4) =>
           pcDuvw = "error" /\ resDuvw = ErrorResult("empty")

\* A file of two bytes has been refused as empty.
C17_Witness ==
    /\ DuvwEnded
    /\ file.exists /\ file.size = 2
    /\ resDuvw = ErrorResult("empty")

----------------------------------------------------------------------------
\* One of the three programs that produce a dataset is called.

StartIngest == StartDuvw \/ StartTecplot \/ StartMerge
NextIngest == NextDuvw \/ NextTec \/ NextMerge
SpecIngest == StartIngest /\ [][NextIngest]_vars

\* Every file to merge has at least 3 variables and one label per variable.
WellLabelledInputs ==
    \A n \in 1..Len(Names) : NumVars(n) >= 3 /\ disk[n].nlabels = NumVars(n)

\* C18: in every dataset returned by parse_duvw_binary, by
\* parse_tecplot_timeseries, and, for files of at least 3 variables with one
\* label per variable, by load_and_concatenate_data, the extent of the last
\* axis of the array is the number of labels.
C18_LabelsMatchVariableAxis ==
    /\ DuvwReturned => resDuvw.shape[Len(resDuvw.shape)] = Len(resDuvw.labels)
    /\ TecReturned => resTec.shape[Len(resTec.shape)] = Len(resTec.labels)
    /\ (MergeReturned /\ WellLabelledInputs) =>
           resMerge.shape[Len(resMerge.shape)] = Len(resMerge.labels)

\* Files of 4, 4, 3 and 4 variables have been merged into 6 labelled columns.
C18_Witness ==
    /\ MergeReturned /\ WellLabelledInputs
    /\ NumVars(1) = 4 /\ NumVars(2) = 4 /\ NumVars(3) = 3 /\ NumVars(4) = 4
    /\ Len(resMerge.labels) = 6

----------------------------------------------------------------------------
\* More properties of load_and_concatenate_data.

\* C19: at most one input dataset is held at any time: each one is released
\* before load_object is called for the next, in both passes, and the only
\* one held is the one bound to `data`.
C19_OneDatasetHeld ==
    /\ Cardinality(held) <= 1
    /\ pcMerge \in {"scan_load", "copy_load"} => held = {}
    /\ held = IF data.state = "loaded" THEN {data.name} ELSE {}

\* dv is the one dataset held while pass 2 copies it.
C19_Witness ==
    /\ pcMerge = "copy"
    /\ held = {"dv"}
    /\ Len(loads) = 7

----------------------------------------------------------------------------
\* The size arithmetic of parse_duvw_binary.

\* C20: for every header of positive 32-bit nx, ny, nz the number of points
\* and the block size the decoder works with are the mathematical values
\* nx*ny*nz and 12 + nx*ny*nz*6*8, and the timestep count is the file size
\* divided by that block size.  (The value the decoder holds is a 32-bit
\* one where the code computes in 32 bits, so it is the mathematical value
\* only if that fits.)
C20_WideArithmetic ==
    dims # <<>> =>
        /\ PointsFit(dims)
        /\ num_points = TruePoints(dims)
        /\ block_size_bytes = TrueBlock(dims)
        /\ pcDuvw = "fill" => num_timesteps = file.size \div TrueBlock(dims)

----------------------------------------------------------------------------
\* Properties of saving and loading a dataset.

\* C21: a dataset that was saved and loaded back, under either encoding, is
\* the record that was saved: the loaded array equals the saved array element
\* for element, the loaded labels are the saved list of strings, and the
\* verification step of the script succeeds.
C21_RoundTripEqual ==
    pcStore = "done" =>
        /\ loaded.timeseries = obj.timeseries
        /\ loaded.labels = obj.labels
        /\ verified = "ok"

\* The load_object calls of a complete merge: pass 1 over the four inputs in
\* the order base, du, dv, dw, then pass 2 over them in the same order.
LoadOrder == [k \in 1..(2 * Len(Names)) |->
                <<((k - 1) \div Len(Names)) + 1, Names[((k - 1) % Len(Names)) + 1]>>]

\* Whether the final array holds a cell that is not the zero of np.zeros.
SomeCellWritten ==
    /\ final_timeseries # <<>>
    /\ \E t \in Range(final_shape[1]), x \in Range(final_shape[2]),
          y \in Range(final_shape[3]), z \in Range(final_shape[4]),
          v \in Range(final_shape[5]) : final_timeseries[t][x][y][z][v] # 0

\* C22: the merge runs its phases in a fixed order.  The loads so far are a
\* prefix of: base, du, dv, dw for metadata, then base, du, dv, dw for copying;
\* the final array exists only after the four metadata loads and after every
\* delta was found to have the base's grid, it exists before the first load
\* of pass 2, and a returned merge made all eight loads; no cell is written
\* before pass 2; and the array, once allocated at the merged shape, is
\* never allocated again.
C22_PhasesInOrder ==
    /\ [](/\ Len(loads) <= Len(LoadOrder)
          /\ \A k \in 1..Len(loads) : loads[k] = LoadOrder[k]
          /\ final_timeseries # <<>> =>
                /\ Len(loads) >= Len(Names)
                /\ Len(metadata) = Len(Names)
                /\ \A n \in 2..Len(Names) :
                       SubSeq(metadata[n].shape, 1, 4) = SubSeq(metadata[1].shape, 1, 4)
                /\ final_shape = SubSeq(metadata[1].shape, 1, 4) \o <<total_variables>>
          /\ Len(loads) > Len(Names) => final_timeseries # <<>>
          /\ SomeCellWritten => Len(loads) > Len(Names)
          /\ resMerge.kind = "ok" => loads = LoadOrder)
    /\ [][final_timeseries # <<>> =>
             /\ final_shape' = final_shape
             /\ DOMAIN final_timeseries' = DOMAIN final_timeseries
             /\ \A t \in DOMAIN final_timeseries :
                    DOMAIN final_timeseries'[t] = DOMAIN final_timeseries[t]]_vars

\* A merge has returned after its eight loads, with cells written.
C22_Witness ==
    /\ resMerge.kind = "ok"
    /\ Len(loads) = 2 * Len(Names)
    /\ SomeCellWritten

----------------------------------------------------------------------------
\* More properties of parse_tecplot_timeseries.

\* The rows of the block that starts at line b (0: the lines before the
\* first TITLE line) that are stored: the data lines of the block that are
\* rows of numbers with one value per label.
StoredRows(ls, b) ==
    {j \in LinesOfKind(ls, "data") \ BadLines(ls) :
        j > b /\ ~\E m \in LinesOfKind(ls, "title") : b < m /\ m < j}

\* The starts of the blocks that hold stored rows, and the k-th of a set of
\* line numbers in file order.
StoredBlocks(ls) == {b \in {0} \cup LinesOfKind(ls, "title") : StoredRows(ls, b) # {}}
KthOf(S, k) == CHOOSE j \in S : Cardinality({m \in S : m < j}) = k - 1

\* The values of the r-th stored row of the k-th block that holds any.
RowOfBlock(ls, k, r) == ParseRow(ls[KthOf(StoredRows(ls, KthOf(StoredBlocks(ls), k)), r)].tokens).values

\* C23: the last snapshot is never dropped.  When the file is exhausted, the
\* snapshots are exactly the TITLE blocks that hold stored data rows, each
\* once and in the order of their TITLE lines, the last block included; and a
\* returned array holds them along its first axis in that order.
C23_LastSnapshotFlushed ==
    TecEnded =>
        /\ Len(all_snapshots) = Cardinality(StoredBlocks(lines))
        /\ \A k \in 1..Len(all_snapshots) :
            /\ Len(all_snapshots[k]) = Cardinality(StoredRows(lines, KthOf(StoredBlocks(lines), k)))
            /\ \A r \in 1..Len(all_snapshots[k]) : all_snapshots[k][r] = RowOfBlock(lines, k, r)
        /\ (TecReturned /\ all_snapshots # <<>>) =>
            /\ resTec.shape[1] = Cardinality(StoredBlocks(lines))
            /\ \A k \in 1..Len(all_snapshots), r \in 1..resTec.shape[2], c \in 1..resTec.shape[3] :
                   resTec.timeseries[k - 1][r - 1][c - 1] = RowOfBlock(lines, k, r)[c]

\* A file of two TITLE blocks with different rows was decoded; the last line
\* of the file is the row of the second block.
C23_Witness ==
    /\ TecReturned
    /\ Len(lines) = 5
    /\ lines[Len(lines)].kind = "data"
    /\ NumTitle(lines) = 2
    /\ resTec.shape = <<2, 1, 3>>
    /\ resTec.timeseries[0][0][0] = 0
    /\ resTec.timeseries[1][0][0] = 1

\* The first VARIABLES line of the lines read so far.
FirstVariablesLine(ls) == KthOf(LinesOfKind(ls, "variables"), 1)

\* C24: the labels are the double-quoted tokens of the first VARIABLES line,
\* whatever that line holds: once a VARIABLES line has been read, the labels
\* are its tokens and no later VARIABLES line changes them, and a returned
\* dataset that holds rows carries these labels.
C24_FirstVariablesLineWins ==
    /\ (pcTec # "idle" /\ LinesOfKind(lines, "variables") # {}) =>
           headers = lines[FirstVariablesLine(lines)].tokens
    /\ (TecReturned /\ resTec.shape # <<0, 0, 0>>) =>
           /\ LinesOfKind(lines, "variables") # {}
           /\ resTec.labels = lines[FirstVariablesLine(lines)].tokens

\* C25: a line that starts with TITLE, VARIABLES or ZONE, in upper or lower
\* case, is never taken as a data row: reading it stores no row and reports
\* no skipped row; and reading a ZONE line leaves the labels, the rows of the
\* current snapshot and the completed snapshots as they were.
C25_KeywordLinesAreNoData ==
    [][linesRead' = linesRead + 1 =>
          LET ln == lines'[linesRead']
          IN  /\ ln.word \in {"TITLE", "title", "VARIABLES", "variables", "ZONE", "zone"} =>
                     /\ current_snapshot_data' \in {current_snapshot_data, <<>>}
                     /\ skipped' = skipped
              /\ ln.word \in {"ZONE", "zone"} =>
                     /\ headers' = headers
                     /\ current_snapshot_data' = current_snapshot_data
                     /\ all_snapshots' = all_snapshots]_vars

\* A lower-case zone line was read between the rows of a snapshot, which
\* holds the row before it and the row after it.
C25_Witness ==
    /\ linesRead = 5
    /\ lines[4].word = "zone"
    /\ lines[3].kind = "data"
    /\ lines[5].kind = "data"
    /\ Len(current_snapshot_data) = 2
    /\ skipped = {}

----------------------------------------------------------------------------
\* More properties of load_and_concatenate_data.

\* C26: when load_object returns no object for an input, in pass 1 or in
\* pass 2, the merge returns no dataset and fails with the error that says
\* which input could not be loaded.
C26_FailedLoadNamesInput ==
    data = NoneObject =>
        /\ ~MergeReturned
        /\ pcMerge \in {"scan", "copy", "error"}
        /\ pcMerge = "error" =>
               /\ resMerge.error = "could_not_load"
               /\ resMerge.name = Names[dsIndex]

\* The call has failed with the dimension-mismatch error.
DimensionMismatchRaised == resMerge.kind = "error" /\ resMerge.error = "dimension_mismatch"

\* C29 as stated: the dimension-mismatch error names the offending delta and
\* reports both the delta's shape and the base's shape.
C29_BothShapesReported ==
    DimensionMismatchRaised =>
        /\ resMerge.name \in {Names[n] : n \in 2..Len(Names)}
        /\ \E k \in 1..Len(resMerge.shapes) :
               resMerge.shapes[k] = disk[NameIndex(resMerge.name)].shape
        /\ \E k \in 1..Len(resMerge.shapes) :
               resMerge.shapes[k] = disk[NameIndex(base_name)].shape

\* C29, amended: the dimension-mismatch error names the first delta whose
\* timestep count or grid differs from the base's and reports that delta's
\* shape, and no other shape.
C29_DeltaShapeReported ==
    DimensionMismatchRaised =>
        /\ resMerge.name \in {Names[n] : n \in 2..Len(Names)}
        /\ LET n == NameIndex(resMerge.name)
           IN  /\ \E a \in 1..Min(4, Len(disk[n].shape)) : disk[n].shape[a] # disk[1].shape[a]
               /\ \A m \in 2..(n - 1) : SubSeq(disk[m].shape, 1, 4) = SubSeq(disk[1].shape, 1, 4)
               /\ resMerge.shapes = <<disk[n].shape>>

\* dv, of two timesteps, was rejected against a base of one timestep.
C29_Witness ==
    /\ DimensionMismatchRaised
    /\ resMerge.name = "dv"
    /\ disk[1].shape[1] = 1
    /\ resMerge.shapes = <<disk[3].shape>>
    /\ disk[3].shape[1] = 2

\* Pass 2 is under way or has ended without an error, and the number of
\* datasets it has copied.
InPass2 == pcMerge \in {"copy_load", "copy", "finish", "done"}
NumCopied == IF pcMerge \in {"finish", "done"} THEN Len(Names) ELSE dsIndex - 1

\* Whether column c of the final array holds the zeros of np.zeros.
ColumnIsZero(c) ==
    \A t \in Range(final_shape[1]), x \in Range(final_shape[2]),
       y \in Range(final_shape[3]), z \in Range(final_shape[4]) :
        final_timeseries[t][x][y][z][c] = 0

\* C30: in pass 2, for inputs of at least 3 variables each, the column index
\* is the number of columns written so far: the datasets copied so far
\* occupy the columns from 0 up to the index, each dataset the contiguous
\* range that follows its predecessor's, every column holding the one input
\* column copied to it; the columns from the index on still hold zeros; and
\* after the last dataset the index is the variable extent of the array.
C30_ColumnIndexCountsWritten ==
    (InPass2 /\ \A n \in 1..Len(Names) : NumVars(n) >= 3) =>
        /\ current_var_index = ColumnOffset(NumCopied + 1)
        /\ current_var_index <= final_shape[5]
        /\ \A n \in 1..NumCopied :
               \A v \in (IF n = 1 THEN 0 ELSE 3)..(NumVars(n) - 1) :
                   /\ ColumnOffset(n) + v - (IF n = 1 THEN 0 ELSE 3) < current_var_index
                   /\ HoldsColumn(final_timeseries,
                                  ColumnOffset(n) + v - (IF n = 1 THEN 0 ELSE 3), n, v)
        /\ \A c \in current_var_index..(final_shape[5] - 1) : ColumnIsZero(c)
        /\ NumCopied = Len(Names) => current_var_index = final_shape[5]

\* A base of 3 variables and three deltas of 4 variables each were copied
\* into the 6 columns of the final array.
C30_Witness ==
    /\ pcMerge = "finish"
    /\ \A n \in 1..Len(Names) : NumVars(n) = (IF n = 1 THEN 3 ELSE 4)
    /\ current_var_index = 6
    /\ final_shape[5] = 6
    /\ ~ColumnIsZero(5)

----------------------------------------------------------------------------
\* The decoders and the merge, composed.

\* The metadata pass 1 records (lines 58-61) when the file of the given name
\* holds the dataset `d` a decoder returned, saved unchanged, and every
\* other file holds a dataset of shape `other`.
MetadataWith(name, d, other) ==
    [n \in 1..Len(Names) |->
        IF Names[n] = name THEN [shape |-> d.shape, labels |-> d.labels]
        ELSE [shape |-> other, labels |-> <<>>]]

\* Lines 70-90 on that metadata: the error the validation raises, or "".
ValidationOutcome(meta) ==
    IF Len(meta[NameIndex(base_name)].shape) # 5 THEN "not_5d"
    ELSE ValidateFrom(meta, 1, 0).error

\* A decoder has returned a dataset with rows in it.
DecodedDataset(res) == res.kind = "ok" /\ res.shape # <<0, 0, 0>>

\* Whether the merge's validation accepts the rank of the dataset: saved as
\* the base it is not refused as "not 5D", and saved as any delta, next to
\* inputs on a one-cell 5-D grid, it is not refused for a missing axis.
RankAccepted(res) ==
    /\ ValidationOutcome(MetadataWith(base_name, res, res.shape)) # "not_5d"
    /\ \A n \in 2..Len(Names) :
           ValidationOutcome(MetadataWith(Names[n], res, <<1, 1, 1, 1, num_variables>>))
               # "index_error"

\* C27: a dataset returned by a decoder for a non-empty input, saved
\* unchanged and given to load_and_concatenate_data, is 5-D and is never
\* rejected by the rank check or by the indexing of a missing axis.
C27_DecodedDatasetsMerge ==
    /\ DecodedDataset(resDuvw) => (Len(resDuvw.shape) = 5 /\ RankAccepted(resDuvw))
    /\ DecodedDataset(resTec) => (Len(resTec.shape) = 5 /\ RankAccepted(resTec))

----------------------------------------------------------------------------
\* The buffers of parse_tecplot_timeseries.

\* The number of snapshots whose rows are held in lists, outside any array.
SnapshotsInLists == Len(all_snapshots) + (IF current_snapshot_data # <<>> THEN 1 ELSE 0)

\* C28 as stated: while the file is scanned, the rows of at most one
\* snapshot are held outside a result array; the snapshots that a TITLE line
\* has ended are in the result.
C28_OneSnapshotOutsideResult ==
    pcTec = "scan" =>
        /\ SnapshotsInLists <= 1
        /\ all_snapshots # <<>> => resTec.kind = "ok"

\* The start of the block being read: the last TITLE line read, or 0.
LastTitle(ls) ==
    IF LinesOfKind(ls, "title") = {} THEN 0
    ELSE KthOf(LinesOfKind(ls, "title"), NumTitle(ls))

\* C28, amended: there is no pre-allocated result.  While the file is
\* scanned no array exists; current_snapshot_data holds the stored rows of
\* the block being read and of no other, and all_snapshots holds the rows of
\* every earlier block that has any.  A TITLE line appends the buffer, if it
\* holds rows, to all_snapshots as its next element and starts an empty
\* buffer; the array is built from all_snapshots when the file has ended.
C28_SnapshotsKeptInList ==
    /\ [](pcTec = "scan" =>
            /\ resTec = NoResult
            /\ Len(current_snapshot_data) = Cardinality(StoredRows(lines, LastTitle(lines)))
            /\ \A r \in 1..Len(current_snapshot_data) :
                   current_snapshot_data[r]
                       = ParseRow(lines[KthOf(StoredRows(lines, LastTitle(lines)), r)].tokens).values
            /\ Len(all_snapshots)
                   = Cardinality({b \in StoredBlocks(lines) : b < LastTitle(lines)}))
    /\ [][(linesRead' = linesRead + 1 /\ lines'[linesRead'].kind = "title") =>
             /\ current_snapshot_data' = <<>>
             /\ all_snapshots' = IF current_snapshot_data # <<>>
                                 THEN Append(all_snapshots, current_snapshot_data)
                                 ELSE all_snapshots]_vars

\* One snapshot has been completed and a different row, of the second
\* snapshot, is in the buffer, while the file is still being scanned.
C28_Witness ==
    /\ pcTec = "scan"
    /\ Len(all_snapshots) = 1
    /\ Len(current_snapshot_data) = 1
    /\ all_snapshots[1] # <<current_snapshot_data[1]>>
    /\ NumTitle(lines) = 2

====
